---- MODULE Spec2Model ----
(***************************************************************************)
(* Clone Hero chart maker: the pitch-to-lane mapping engine                *)
(* (src/src/map_to_frets.py) and the chart document model with its parser  *)
(* and writer (src/chart_parser.py).                                       *)
(*                                                                         *)
(* Python lists are modelled as sequences, so index i of the source is     *)
(* index i+1 here.  Floats that the code only ever multiplies by exact     *)
(* factors are modelled as rationals (numerator, denominator).             *)
(***************************************************************************)
EXTENDS Integers, Sequences, FiniteSets, Bags, TLC

VARIABLES
    pc,                   \* which operation has been applied so far
    notes,                \* list[NoteEvent]: the input of the mapping engine
    ticks_per_beat,       \* PPQ of the input
    phrase_silence_beats, \* a float, kept as [num, den]
    max_lane_jump,
    smoothing_passes,
    lanes,                \* list[int]: lane per note
    issues,               \* list[list[QAIssue]]: the result of detect_qa_issues
    track,                \* a Track that notes are added to
    inserted,             \* history: the notes passed to Track.add_note, in order
    chart,                \* the Chart (document model)
    set_log,              \* history: the arguments of the Chart.set_track calls
    text,                 \* the lines of a .chart file
    parsed,               \* the outcome of ChartParser.parse_file
    mapped,               \* the outcome of create_mapped_notes
    segmented,            \* list[list[int]]: the result of segment_into_phrases
    smooth_out,           \* list[int]: the result of smooth_lanes
    midi_ticks,           \* tick positions handed to the tick converter
    midi_ppq,             \* ticks per quarter note of the input
    chart_resolution,     \* ticks per quarter note of the chart
    min_sustain_beats,    \* a float, kept as [num, den]
    chart_ticks,          \* the converted tick positions
    section,              \* the lines format_notes_section returns
    bpm,                  \* a float, in units of 1/FloatScale
    time_sig_numerator,
    time_sig_denominator,
    sync_track,           \* the lines format_sync_track returns
    status,               \* DownloadTask.status of each task ("" before it exists)
    retry_count,          \* DownloadTask.retry_count of each task
    download_queue,       \* DownloadManager.download_queue
    retry_queue,          \* DownloadManager.retry_queue
    completed,            \* DownloadManager.completed
    errored,              \* DownloadManager.errored
    is_running,           \* DownloadManager.is_running
    worker,               \* each worker thread: where it is and the task it holds
    worker_thread,        \* DownloadManager.worker_thread: the thread started last
    caller,               \* the thread calling the manager: where it is
    cancelled,            \* history: the tasks cancel_download was called on
    attempts,             \* history: downloads begun for a task since it was queued
    stop_calls,           \* history: the number of stop() calls
    retry_calls           \* history: the number of retry_failed() calls

stepVars == <<segmented, smooth_out>>

mapVars == <<notes, ticks_per_beat, phrase_silence_beats, max_lane_jump,
             smoothing_passes, lanes, issues, mapped, stepVars>>

syncVars == <<bpm, time_sig_numerator, time_sig_denominator, sync_track>>

writerVars == <<midi_ticks, midi_ppq, chart_resolution, min_sustain_beats,
                chart_ticks, section, syncVars>>

docVars == <<track, inserted, chart, set_log, text, parsed>>

dlVars == <<status, retry_count, download_queue, retry_queue, completed,
            errored, is_running, worker, worker_thread, caller, cancelled,
            attempts, stop_calls, retry_calls>>

vars == <<pc, mapVars, docVars, writerVars, dlVars>>

-----------------------------------------------------------------------------
(* Bounds of the model.                                                    *)

MaxNotes == 3
MaxPasses == 2
MaxQANotes == 3
MaxTrackNotes == 3
MaxSetCalls == 2
MaxTasks == 2
MaxWorkers == 2
MaxStopCalls == 1
MaxRetryCalls == 1

\* DownloadTask.max_retries.
max_retries == 3

TaskIds == 1..MaxTasks
WorkerIds == 1..MaxWorkers
NoTask == 0
NoWorker == 0

\* Pitches the inputs are drawn from: a range of 8 semitones makes
\* ratio * 4 land on exact halves (61 -> 0.5, 63 -> 1.5), a range of 3 off
\* them (61 -> 1.33), and the differences lie on both sides of the QA threshold 2.
PitchSet == {60, 61, 63, 68}
QAPitchSet == {60, 62, 63}

\* Ticks between the end of a note and the start of the next.
GapSet == {0, 2}
TpbSet == {2}
SilenceSet == {[num |-> 1, den |-> 2], [num |-> 3, den |-> 2]}
LaneSet == 0..4

-----------------------------------------------------------------------------
(* Helpers: Python built-ins.                                              *)

Max2(a, b) == IF a >= b THEN a ELSE b
Min2(a, b) == IF a <= b THEN a ELSE b
Abs(a) == IF a < 0 THEN -a ELSE a

SetMin(S) == CHOOSE x \in S : \A y \in S : x <= y
SetMax(S) == CHOOSE x \in S : \A y \in S : x >= y

\* Python 3 round(n / d) for d > 0: to the nearest integer, an exact half
\* to the even neighbour.
RoundHalfEven(n, d) ==
    LET q == n \div d
        r == n % d
    IN  IF 2 * r < d THEN q
        ELSE IF 2 * r > d THEN q + 1
        ELSE IF q % 2 = 0 THEN q ELSE q + 1

\* int(silence_beats * ticks_per_beat): truncation of a non-negative float.
IntOfProduct(beats, tpb) == (beats.num * tpb) \div beats.den

-----------------------------------------------------------------------------
(* src/src/map_to_frets.py                                                 *)

TOO_LOW == "Bad_Too_Low"
TOO_HIGH == "Bad_Too_High"
DIFFERENT_FRET == "Bad_Different_Fret"

NoteEvent(s, e, p) == [start_tick |-> s, end_tick |-> e, pitch |-> p]

RECURSIVE SegmentLoop(_, _, _, _, _)
SegmentLoop(ns, silence_ticks, i, phrases, current_phrase) ==
    IF i > Len(ns)
    THEN IF current_phrase # <<>> THEN Append(phrases, current_phrase) ELSE phrases
    ELSE LET gap == ns[i].start_tick - ns[i - 1].end_tick
         IN  IF gap >= silence_ticks
             THEN SegmentLoop(ns, silence_ticks, i + 1,
                              Append(phrases, current_phrase), <<i>>)
             ELSE SegmentLoop(ns, silence_ticks, i + 1,
                              phrases, Append(current_phrase, i))

segment_into_phrases(ns, tpb, silence_beats) ==
    IF ns = <<>> THEN <<>>
    ELSE SegmentLoop(ns, IntOfProduct(silence_beats, tpb), 2, <<>>, <<1>>)

scale_pitch_to_lane(pitch, min_pitch, max_pitch) ==
    IF max_pitch = min_pitch THEN 2
    ELSE Max2(0, Min2(4, RoundHalfEven(4 * (pitch - min_pitch),
                                       max_pitch - min_pitch)))

\* The sweep compares each lane with the lane before it in the input, not
\* with the value the sweep has already written.
RECURSIVE SmoothSweep_from_input(_, _, _)
SmoothSweep_from_input(result, max_jump, i) ==
    IF i > Len(result) THEN result
    ELSE LET diff == result[i] - result[i - 1]
             rest == SmoothSweep_from_input(result, max_jump, i + 1)
         IN  IF Abs(diff) > max_jump
             THEN LET moved == IF diff > 0 THEN result[i - 1] + max_jump
                                           ELSE result[i - 1] - max_jump
                  IN  [rest EXCEPT ![i] = Max2(0, Min2(4, moved))]
             ELSE rest

\* One left-to-right sweep of the clamp: result[i-1] is the value the sweep
\* has already written.
RECURSIVE SmoothSweep(_, _, _)
SmoothSweep(result, max_jump, i) ==
    IF i > Len(result) THEN result
    ELSE LET diff == result[i] - result[i - 1]
         IN  IF Abs(diff) > max_jump
             THEN LET moved == IF diff > 0 THEN result[i - 1] + max_jump
                                           ELSE result[i - 1] - max_jump
                  IN  SmoothSweep([result EXCEPT ![i] = Max2(0, Min2(4, moved))],
                                  max_jump, i + 1)
             ELSE SmoothSweep(result, max_jump, i + 1)

RECURSIVE SmoothPasses(_, _, _)
SmoothPasses(result, max_jump, passes) ==
    IF passes <= 0 THEN result
    ELSE SmoothPasses(SmoothSweep(result, max_jump, 2), max_jump, passes - 1)

smooth_lanes(ls, max_jump, passes) ==
    IF Len(ls) <= 1 THEN ls ELSE SmoothPasses(ls, max_jump, passes)

\* The nudge goes against the melody: down where the pitch rises, up where
\* it falls.
RECURSIVE DirectionLoop_against(_, _, _)
DirectionLoop_against(result, pitches, i) ==
    IF i > Len(result) THEN result
    ELSE LET pitch_diff == pitches[i] - pitches[i - 1]
             lane_diff == result[i] - result[i - 1]
         IN  IF pitch_diff > 0 /\ lane_diff <= 0
             THEN DirectionLoop_against(
                      [result EXCEPT ![i] = Max2(0, result[i - 1] - 1)], pitches, i + 1)
             ELSE IF pitch_diff < 0 /\ lane_diff >= 0
             THEN DirectionLoop_against(
                      [result EXCEPT ![i] = Min2(4, result[i - 1] + 1)], pitches, i + 1)
             ELSE DirectionLoop_against(result, pitches, i + 1)

RECURSIVE DirectionLoop(_, _, _)
DirectionLoop(result, pitches, i) ==
    IF i > Len(result) THEN result
    ELSE LET pitch_diff == pitches[i] - pitches[i - 1]
             lane_diff == result[i] - result[i - 1]
         IN  IF pitch_diff > 0 /\ lane_diff <= 0
             THEN IF result[i] < 4
                  THEN DirectionLoop([result EXCEPT ![i] = Min2(4, result[i - 1] + 1)],
                                     pitches, i + 1)
                  ELSE DirectionLoop(result, pitches, i + 1)
             ELSE IF pitch_diff < 0 /\ lane_diff >= 0
             THEN IF result[i] > 0
                  THEN DirectionLoop([result EXCEPT ![i] = Max2(0, result[i - 1] - 1)],
                                     pitches, i + 1)
                  ELSE DirectionLoop(result, pitches, i + 1)
             ELSE DirectionLoop(result, pitches, i + 1)

preserve_direction(ls, pitches) ==
    IF Len(ls) <= 1 THEN ls ELSE DirectionLoop(ls, pitches, 2)

\* The phrase (list of indices) that holds index i.
PhraseOf(phrases, i) ==
    phrases[CHOOSE k \in 1..Len(phrases) :
                \E j \in 1..Len(phrases[k]) : phrases[k][j] = i]

\* Lines 212-223: every phrase is scaled on its own pitch range.
ScalePhrases(ns, phrases) ==
    [idx \in 1..Len(ns) |->
        LET phrase_indices == PhraseOf(phrases, idx)
            phrase_pitches == {ns[phrase_indices[j]].pitch :
                                  j \in 1..Len(phrase_indices)}
        IN  scale_pitch_to_lane(ns[idx].pitch, SetMin(phrase_pitches),
                                SetMax(phrase_pitches))]

\* One lane per phrase instead of one per note.
map_pitches_to_lanes_per_phrase(ns, tpb, silence_beats, max_jump, passes) ==
    IF ns = <<>> THEN <<>>
    ELSE LET phrases == segment_into_phrases(ns, tpb, silence_beats)
         IN  [k \in 1..Len(phrases) |->
                 scale_pitch_to_lane(ns[phrases[k][1]].pitch,
                                     ns[phrases[k][1]].pitch,
                                     ns[phrases[k][Len(phrases[k])]].pitch)]

\* A lane numbering that starts at 1 (Green = 1) instead of 0.
map_pitches_to_lanes_one_based(ns, tpb, silence_beats, max_jump, passes) ==
    IF ns = <<>> THEN <<>>
    ELSE LET phrases == segment_into_phrases(ns, tpb, silence_beats)
             scaled == ScalePhrases(ns, phrases)
             all_pitches == [i \in 1..Len(ns) |-> ns[i].pitch]
             smoothed == smooth_lanes(scaled, max_jump, passes)
             directed == preserve_direction(smoothed, all_pitches)
         IN  [i \in 1..Len(ns) |-> directed[i] + 1]

\* The direction step left out: the smoothed lanes are clamped and returned.
map_pitches_to_lanes_undirected(ns, tpb, silence_beats, max_jump, passes) ==
    IF ns = <<>> THEN <<>>
    ELSE LET phrases == segment_into_phrases(ns, tpb, silence_beats)
             scaled == ScalePhrases(ns, phrases)
             smoothed == smooth_lanes(scaled, max_jump, passes)
         IN  [i \in 1..Len(ns) |-> Max2(0, Min2(4, smoothed[i]))]

map_pitches_to_lanes(ns, tpb, silence_beats, max_jump, passes) ==
    IF ns = <<>> THEN <<>>
    ELSE LET phrases == segment_into_phrases(ns, tpb, silence_beats)
             scaled == ScalePhrases(ns, phrases)
             all_pitches == [i \in 1..Len(ns) |-> ns[i].pitch]
             smoothed == smooth_lanes(scaled, max_jump, passes)
             directed == preserve_direction(smoothed, all_pitches)
         IN  [i \in 1..Len(ns) |-> Max2(0, Min2(4, directed[i]))]

\* The membership test inverted: flags a lane the pitch already had.
DifferentFretCheck_inverted(pitch_to_lanes, pitch, lane) ==
    /\ pitch \in DOMAIN pitch_to_lanes
    /\ lane \in pitch_to_lanes[pitch]

\* Lines 266-268: the pitch was seen before and never on this lane.
DifferentFretCheck(pitch_to_lanes, pitch, lane) ==
    /\ pitch \in DOMAIN pitch_to_lanes
    /\ lane \notin pitch_to_lanes[pitch]

\* Any rise of the pitch with any fall of the lane, without the thresholds.
TooLowCheck_no_threshold(pitch_diff, lane_diff) == pitch_diff > 0 /\ lane_diff < 0

\* Line 282.
TooLowCheck(pitch_diff, lane_diff) == pitch_diff > 2 /\ lane_diff < -1

\* Line 286.
TooHighCheck(pitch_diff, lane_diff) == pitch_diff < -2 /\ lane_diff > 1

\* The loop of lines 264-287 over zip(notes, lanes), which stops at the
\* shorter of the two lists.
RECURSIVE QALoop(_, _, _, _, _)
QALoop(ns, ls, i, acc, pitch_to_lanes) ==
    IF i > Min2(Len(ns), Len(ls)) THEN acc
    ELSE LET pitch == ns[i].pitch
             lane == ls[i]
             fret_issue == IF DifferentFretCheck(pitch_to_lanes, pitch, lane)
                           THEN <<DIFFERENT_FRET>> ELSE <<>>
             table == IF pitch \in DOMAIN pitch_to_lanes
                      THEN [pitch_to_lanes EXCEPT ![pitch] = @ \cup {lane}]
                      ELSE pitch_to_lanes @@ (pitch :> {lane})
             pitch_diff == pitch - ns[i - 1].pitch
             lane_diff == lane - ls[i - 1]
             low_issue == IF i > 1 /\ TooLowCheck(pitch_diff, lane_diff)
                          THEN <<TOO_LOW>> ELSE <<>>
             high_issue == IF i > 1 /\ TooHighCheck(pitch_diff, lane_diff)
                           THEN <<TOO_HIGH>> ELSE <<>>
         IN  QALoop(ns, ls, i + 1,
                    [acc EXCEPT ![i] = fret_issue \o low_issue \o high_issue],
                    table)

detect_qa_issues(ns, ls) ==
    QALoop(ns, ls, 1, [i \in 1..Len(ns) |-> <<>>], <<>>)

\* Lines 23-28.
MappedNote(note, lane, note_issues) ==
    [note |-> note, lane |-> lane, issues |-> note_issues]

\* Lines 312-316: the two list comprehensions over zip(...).
ZipMapped(ns, ls, include_qa) ==
    LET qa == detect_qa_issues(ns, ls)
    IN  [i \in 1..Min2(Len(ns), Len(ls)) |->
            MappedNote(ns[i], ls[i], IF include_qa THEN qa[i] ELSE <<>>)]

Raised(error) == [raised |-> error, value |-> <<>>]
Returned(value) == [raised |-> "", value |-> value]

\* The lists are zipped whatever their lengths.
create_mapped_notes_unchecked(ns, ls, include_qa) ==
    Returned(ZipMapped(ns, ls, include_qa))

\* Lines 292-316.
create_mapped_notes(ns, ls, include_qa) ==
    IF Len(ns) # Len(ls) THEN Raised("ValueError")
    ELSE Returned(ZipMapped(ns, ls, include_qa))

-----------------------------------------------------------------------------
(* Text.  A Python str is a sequence of glyphs: a glyph is a character     *)
(* (" ", a double quote, a digit, "-", ".") or a word that no operation    *)
(* of the code takes apart ("Name", "rock", "N").                          *)

Quote == "\""
Space == " "

Digits == <<"0", "1", "2", "3", "4", "5", "6", "7", "8", "9">>
IsDigit(g) == \E d \in 1..10 : Digits[d] = g
DigitOf(g) == (CHOOSE d \in 1..10 : Digits[d] = g) - 1

\* Floats (offset, preview_start, preview_end, bpm) are kept as whole
\* numbers of 1/FloatScale: four decimals.
FloatScale == 10000

\* str.strip(chars): leading and trailing glyphs of the set are removed.
RECURSIVE LStrip(_, _)
LStrip(t, chars) ==
    IF t # <<>> /\ t[1] \in chars THEN LStrip(Tail(t), chars) ELSE t

RECURSIVE RStrip(_, _)
RStrip(t, chars) ==
    IF t # <<>> /\ t[Len(t)] \in chars
    THEN RStrip(SubSeq(t, 1, Len(t) - 1), chars) ELSE t

StripChars(t, chars) == RStrip(LStrip(t, chars), chars)

\* str.strip()
Strip(t) == StripChars(t, {Space})

\* str.split(): the maximal runs of glyphs that are not whitespace.
RECURSIVE SplitLoop(_, _, _, _)
SplitLoop(t, i, words, word) ==
    IF i > Len(t) THEN IF word # <<>> THEN Append(words, word) ELSE words
    ELSE IF t[i] = Space
         THEN SplitLoop(t, i + 1,
                        IF word # <<>> THEN Append(words, word) ELSE words, <<>>)
         ELSE SplitLoop(t, i + 1, words, Append(word, t[i]))

Split(t) == SplitLoop(t, 1, <<>>, <<>>)

\* ' '.join(words)
RECURSIVE JoinSpace(_)
JoinSpace(words) ==
    IF words = <<>> THEN <<>>
    ELSE IF Len(words) = 1 THEN words[1]
    ELSE words[1] \o <<Space>> \o JoinSpace(Tail(words))

\* f"{n}" of an int
RECURSIVE NatToText(_)
NatToText(n) ==
    IF n < 10 THEN <<Digits[n + 1]>>
    ELSE NatToText(n \div 10) \o <<Digits[(n % 10) + 1]>>

IntToText(n) == IF n < 0 THEN <<"-">> \o NatToText(-n) ELSE NatToText(n)

IsNatText(t) == t # <<>> /\ \A i \in 1..Len(t) : IsDigit(t[i])

RECURSIVE TextToNat(_)
TextToNat(t) ==
    IF t = <<>> THEN 0
    ELSE TextToNat(SubSeq(t, 1, Len(t) - 1)) * 10 + DigitOf(t[Len(t)])

\* int(text) succeeds: an optional sign and digits, whitespace around them.
IntOk(txt) ==
    LET t == Strip(txt)
    IN  \/ IsNatText(t)
        \/ Len(t) > 1 /\ t[1] \in {"-", "+"} /\ IsNatText(Tail(t))

\* int(text)
PyInt(txt) ==
    LET t == Strip(txt)
    IN  IF t[1] = "-" THEN -TextToNat(Tail(t))
        ELSE IF t[1] = "+" THEN TextToNat(Tail(t))
        ELSE TextToNat(t)

\* f"{x}" of a float: the decimal expansion (the code's repr is the
\* shortest expansion that reads back as x; here always four decimals).
FloatToText(x) ==
    LET a == Abs(x)
        frac == a % FloatScale
    IN  (IF x < 0 THEN <<"-">> ELSE <<>>) \o NatToText(a \div FloatScale) \o <<".">>
        \o <<Digits[(frac \div 1000) + 1], Digits[((frac \div 100) % 10) + 1],
             Digits[((frac \div 10) % 10) + 1], Digits[(frac % 10) + 1]>>

DotAt(t) == {i \in 1..Len(t) : t[i] = "."}

Unsigned(t) == IF t # <<>> /\ t[1] \in {"-", "+"} THEN Tail(t) ELSE t

\* float(text) succeeds: [sign] digits [. digits], whitespace around it.
\* (Exponents, inf and nan are outside the texts of the model.)
FloatOk(txt) ==
    LET t == Unsigned(Strip(txt))
    IN  \/ IsNatText(t)
        \/ /\ Cardinality(DotAt(t)) = 1
           /\ LET d == CHOOSE i \in DotAt(t) : TRUE
                  whole == SubSeq(t, 1, d - 1)
                  frac == SubSeq(t, d + 1, Len(t))
              IN  /\ whole # <<>> \/ frac # <<>>
                  /\ whole = <<>> \/ IsNatText(whole)
                  /\ frac = <<>> \/ (IsNatText(frac) /\ Len(frac) <= 4)

RECURSIVE Pow10(_)
Pow10(k) == IF k = 0 THEN 1 ELSE 10 * Pow10(k - 1)

\* float(text)
PyFloat(txt) ==
    LET s == Strip(txt)
        t == Unsigned(s)
        d == IF DotAt(t) = {} THEN Len(t) + 1 ELSE CHOOSE i \in DotAt(t) : TRUE
        whole == SubSeq(t, 1, d - 1)
        frac == SubSeq(t, d + 1, Len(t))
        value == TextToNat(whole) * FloatScale
                     + TextToNat(frac) * Pow10(4 - Len(frac))
    IN  IF s # <<>> /\ s[1] = "-" THEN -value ELSE value

-----------------------------------------------------------------------------
(* src/chart_parser.py: the document model.                                *)

Difficulties == {"EASY", "MEDIUM", "HARD", "EXPERT"}

Instruments == {"GUITAR", "BASS", "RHYTHM", "COOP", "KEYS", "DRUMS",
                "GHL_GUITAR", "GHL_BASS"}

CHART_RESOLUTION == 192

FORCED == 5
TAP == 6
OPEN == 7

Note(tick, fret, sustain, is_forced, is_tap, is_open) ==
    [tick |-> tick, fret |-> fret, sustain |-> sustain, is_forced |-> is_forced,
     is_tap |-> is_tap, is_open |-> is_open, velocity |-> 100]

StarPowerPhrase(tick, length) == [tick |-> tick, length |-> length]

\* bpm is a float; it is kept as a whole number of BpmUnit-ths.
BPMChange(tick, b) == [tick |-> tick, bpm |-> b]

TimeSignature(tick, numerator, denominator) ==
    [tick |-> tick, numerator |-> numerator, denominator |-> denominator]

Section(tick, name) == [tick |-> tick, name |-> name]

Event(tick, txt) == [tick |-> tick, text |-> txt]

EmptyTrack == [notes |-> <<>>, star_power |-> <<>>, events |-> <<>>]

\* Python's None.
None == [is_none |-> TRUE]

\* list.sort(key=...) and sorted(..., key=...) are stable: an element goes
\* behind every element whose key is not greater.  The key is (tick, fret)
\* with by_fret, and tick without.
KeyLE(a, b, by_fret) ==
    \/ a.tick < b.tick
    \/ a.tick = b.tick /\ (~by_fret \/ a.fret <= b.fret)

RECURSIVE InsertStable(_, _, _, _)
InsertStable(sorted, x, i, by_fret) ==
    IF i > Len(sorted) THEN Append(sorted, x)
    ELSE IF KeyLE(sorted[i], x, by_fret)
         THEN InsertStable(sorted, x, i + 1, by_fret)
         ELSE SubSeq(sorted, 1, i - 1) \o <<x>> \o SubSeq(sorted, i, Len(sorted))

RECURSIVE StableSort(_, _, _, _)
StableSort(list, i, acc, by_fret) ==
    IF i > Len(list) THEN acc
    ELSE StableSort(list, i + 1, InsertStable(acc, list[i], 1, by_fret), by_fret)

SortByTickFret(list) == StableSort(list, 1, <<>>, TRUE)
SortByTick(list) == StableSort(list, 1, <<>>, FALSE)

\* The note is appended and the list is left as it is.
add_note_unsorted(t, note) == [t EXCEPT !.notes = Append(t.notes, note)]

add_note(t, note) == [t EXCEPT !.notes = SortByTickFret(Append(t.notes, note))]

DefaultChart ==
    [name |-> <<"Untitled">>, artist |-> <<"Unknown", " ", "Artist">>,
     album |-> <<>>, genre |-> <<"rock">>,
     year |-> <<>>, charter |-> <<>>, offset |-> 0, resolution |-> 192,
     difficulty |-> -1, preview_start |-> 0, preview_end |-> 0,
     bpm_changes |-> <<>>, time_signatures |-> <<>>,
     sections |-> <<>>, events |-> <<>>,
     guitar |-> <<>>, bass |-> <<>>, rhythm |-> <<>>, keys |-> <<>>,
     drums |-> <<>>, ghl_guitar |-> <<>>, ghl_bass |-> <<>>]

\* The track_map of get_track and set_track: the Chart field of an
\* instrument.  Instrument.COOP has no entry.
track_map ==
    [i \in Instruments \ {"COOP"} |->
        CASE i = "GUITAR" -> "guitar"
          [] i = "BASS" -> "bass"
          [] i = "RHYTHM" -> "rhythm"
          [] i = "KEYS" -> "keys"
          [] i = "DRUMS" -> "drums"
          [] i = "GHL_GUITAR" -> "ghl_guitar"
          [] i = "GHL_BASS" -> "ghl_bass"]

\* dict[key] = value
DictSet(d, key, value) ==
    [k \in DOMAIN d \cup {key} |-> IF k = key THEN value ELSE d[k]]

\* dict.get(key)
DictGet(d, key) == IF key \in DOMAIN d THEN d[key] ELSE None

get_track(c, instrument, difficulty) ==
    LET tracks == IF instrument \in DOMAIN track_map
                  THEN c[track_map[instrument]] ELSE <<>>
    IN  DictGet(tracks, difficulty)

set_track(c, instrument, difficulty, t) ==
    IF instrument \in DOMAIN track_map
    THEN [c EXCEPT ![track_map[instrument]] = DictSet(@, difficulty, t)]
    ELSE c

-----------------------------------------------------------------------------
(* src/chart_parser.py: ChartParser.write_file.  A file is the list of its *)
(* lines.  A line is a section header "[name]", a brace, a blank line, a   *)
(* line with "=" (the text before the first "=" and the text after it), or *)
(* any other line.  A section name is the list of the words it is the      *)
(* concatenation of ("Expert" + "Single").                                 *)

HeaderLine(name) == [kind |-> "header", name |-> name, lhs |-> <<>>, rhs |-> <<>>]
BraceLine(b) == [kind |-> "brace", name |-> <<b>>, lhs |-> <<>>, rhs |-> <<>>]
BlankLine == [kind |-> "blank", name |-> <<>>, lhs |-> <<>>, rhs |-> <<>>]
AssignLine(lhs, rhs) == [kind |-> "assign", name |-> <<>>, lhs |-> lhs, rhs |-> rhs]
OtherLine(words) == [kind |-> "other", name |-> <<>>, lhs |-> words, rhs |-> <<>>]

\* f'  {key} = "{value}"'
QuotedLine(key, value) ==
    AssignLine(<<Space, Space>> \o key \o <<Space>>,
               <<Space, Quote>> \o value \o <<Quote>>)

\* f"  {key} = {value}"
PlainLine(key, value) ==
    AssignLine(<<Space, Space>> \o key \o <<Space>>, <<Space>> \o value)

\* f"  {tick} = {type} {a}" and f"  {tick} = {type} {a} {b}"
EventLine1(tick, type, a) ==
    PlainLine(IntToText(tick), <<type, Space>> \o a)
EventLine2(tick, type, a, b) ==
    PlainLine(IntToText(tick), <<type, Space>> \o a \o <<Space>> \o b)

\* The bpm values whose double product bpm * 1000 lies just below the
\* exact one (1.001 * 1000 is 1000.9999999999999).
\* Below 1.024 these are the odd thousandths 1.001, 1.003, ..., 1.023.
ProductBelow == {10000 + 10 * k : k \in {j \in 1..23 : j % 2 = 1}}

\* BPMChange.milli_bpm: int(self.bpm * 1000), for bpm >= 0.
milli_bpm(b) ==
    IF b \in ProductBelow THEN (b \div (FloatScale \div 1000)) - 1
    ELSE b \div (FloatScale \div 1000)

\* Lines 501-522.
WriteSong(c) ==
    <<HeaderLine(<<"Song">>), BraceLine("{"),
      QuotedLine(<<"Name">>, c.name),
      QuotedLine(<<"Artist">>, c.artist)>>
    \o (IF c.album # <<>> THEN <<QuotedLine(<<"Album">>, c.album)>> ELSE <<>>)
    \o (IF c.genre # <<>> THEN <<QuotedLine(<<"Genre">>, c.genre)>> ELSE <<>>)
    \o (IF c.year # <<>> THEN <<QuotedLine(<<"Year">>, c.year)>> ELSE <<>>)
    \o (IF c.charter # <<>> THEN <<QuotedLine(<<"Charter">>, c.charter)>> ELSE <<>>)
    \o <<PlainLine(<<"Offset">>, FloatToText(c.offset)),
         PlainLine(<<"Resolution">>, IntToText(c.resolution))>>
    \o (IF c.difficulty >= 0
        THEN <<PlainLine(<<"Difficulty">>, IntToText(c.difficulty))>> ELSE <<>>)
    \o (IF c.preview_start > 0
        THEN <<PlainLine(<<"PreviewStart">>, FloatToText(c.preview_start))>> ELSE <<>>)
    \o (IF c.preview_end > 0
        THEN <<PlainLine(<<"PreviewEnd">>, FloatToText(c.preview_end))>> ELSE <<>>)
    \o <<BraceLine("}"), BlankLine>>

\* Line 530.
TimeSignatureLine(ts) == EventLine1(ts.tick, "TS", IntToText(ts.numerator))

\* Line 534.
BpmLine(change) ==
    EventLine1(change.tick, "B", IntToText(milli_bpm(change.bpm)))

\* Lines 525-537.
WriteSyncTrack(c) ==
    LET tss == SortByTick(c.time_signatures)
        bpms == SortByTick(c.bpm_changes)
    IN  <<HeaderLine(<<"SyncTrack">>), BraceLine("{")>>
        \o [i \in 1..Len(tss) |-> TimeSignatureLine(tss[i])]
        \o [i \in 1..Len(bpms) |-> BpmLine(bpms[i])]
        \o <<BraceLine("}"), BlankLine>>

\* Lines 540-550.
WriteEvents(c) ==
    LET secs == SortByTick(c.sections)
        evs == SortByTick(c.events)
    IN  <<HeaderLine(<<"Events">>), BraceLine("{")>>
        \o [i \in 1..Len(secs) |->
               PlainLine(IntToText(secs[i].tick),
                         <<"E", Space, Quote, "section", Space>> \o secs[i].name
                             \o <<Quote>>)]
        \o [i \in 1..Len(evs) |->
               PlainLine(IntToText(evs[i].tick),
                         <<"E", Space, Quote>> \o evs[i].text \o <<Quote>>)]
        \o <<BraceLine("}"), BlankLine>>

\* Lines 589-597: the note line, then its flag lines.
NoteLines(note) ==
    <<EventLine2(note.tick, "N", IntToText(note.fret), IntToText(note.sustain))>>
    \o (IF note.is_forced
        THEN <<EventLine2(note.tick, "N", IntToText(FORCED), IntToText(0))>>
        ELSE <<>>)
    \o (IF note.is_tap
        THEN <<EventLine2(note.tick, "N", IntToText(TAP), IntToText(0))>>
        ELSE <<>>)

RECURSIVE AllNoteLines(_)
AllNoteLines(ns) ==
    IF ns = <<>> THEN <<>> ELSE NoteLines(Head(ns)) \o AllNoteLines(Tail(ns))

\* Lines 582-608: the section of one track.
WriteTrack(t, diff_name, inst_name) ==
    LET sps == SortByTick(t.star_power)
        evs == SortByTick(t.events)
    IN  <<HeaderLine(<<diff_name, inst_name>>), BraceLine("{")>>
        \o AllNoteLines(SortByTickFret(t.notes))
        \o [i \in 1..Len(sps) |->
               EventLine2(sps[i].tick, "S", IntToText(2), IntToText(sps[i].length))]
        \o [i \in 1..Len(evs) |->
               PlainLine(IntToText(evs[i].tick),
                         <<"E", Space, Quote>> \o evs[i].text \o <<Quote>>)]
        \o <<BraceLine("}"), BlankLine>>

\* Lines 562-570 and 572-577: the lists the two loops run over.
WriteInstruments ==
    <<[field |-> "guitar", name |-> "Single"],
      [field |-> "bass", name |-> "DoubleBass"],
      [field |-> "rhythm", name |-> "DoubleRhythm"],
      [field |-> "keys", name |-> "Keyboard"],
      [field |-> "drums", name |-> "Drums"],
      [field |-> "ghl_guitar", name |-> "GHLGuitar"],
      [field |-> "ghl_bass", name |-> "GHLBass"]>>

WriteDifficulties ==
    <<[difficulty |-> "EASY", name |-> "Easy"],
      [difficulty |-> "MEDIUM", name |-> "Medium"],
      [difficulty |-> "HARD", name |-> "Hard"],
      [difficulty |-> "EXPERT", name |-> "Expert"]>>

\* Lines 579-608: for each instrument, for each difficulty.
RECURSIVE WriteTracksLoop(_, _, _)
WriteTracksLoop(c, i, d) ==
    IF i > Len(WriteInstruments) THEN <<>>
    ELSE IF d > Len(WriteDifficulties) THEN WriteTracksLoop(c, i + 1, 1)
    ELSE LET tracks == c[WriteInstruments[i].field]
             difficulty == WriteDifficulties[d].difficulty
         IN  (IF difficulty \in DOMAIN tracks
              THEN WriteTrack(tracks[difficulty], WriteDifficulties[d].name,
                              WriteInstruments[i].name)
              ELSE <<>>)
             \o WriteTracksLoop(c, i, d + 1)

write_tracks(c) == WriteTracksLoop(c, 1, 1)

write_file(c) == WriteSong(c) \o WriteSyncTrack(c) \o WriteEvents(c) \o write_tracks(c)

-----------------------------------------------------------------------------
(* src/chart_parser.py: ChartParser.parse_file.  A step that raises        *)
(* (ValueError of int() or float(), IndexError of a missing argument)      *)
(* ends the parse: ok is FALSE from then on and no Chart is returned.      *)

Ok(c) == [ok |-> TRUE, chart |-> c]
Failed == [ok |-> FALSE, chart |-> None]

\* sections[name] = content, on a dict kept as the list of its items in
\* insertion order.
SectionsPut(sections, name, content) ==
    IF \E i \in 1..Len(sections) : sections[i].name = name
    THEN [i \in 1..Len(sections) |->
             IF sections[i].name = name
             THEN [name |-> name, content |-> content] ELSE sections[i]]
    ELSE Append(sections, [name |-> name, content |-> content])

\* `if current_section:` with current_section None (<<>>) or a str (<<name>>).
Truthy(current_section) == current_section # <<>> /\ current_section[1] # <<>>

RECURSIVE SplitSectionsLoop(_, _, _, _, _)
SplitSectionsLoop(lines, i, sections, current_section, current_content) ==
    LET saved == IF Truthy(current_section)
                 THEN SectionsPut(sections, current_section[1], current_content)
                 ELSE sections
    IN  IF i > Len(lines) THEN saved
        ELSE IF lines[i].kind = "header"
        THEN SplitSectionsLoop(lines, i + 1, saved, <<lines[i].name>>, <<>>)
        ELSE IF lines[i].kind \in {"assign", "other"}
        THEN SplitSectionsLoop(lines, i + 1, sections, current_section,
                               Append(current_content, lines[i]))
        ELSE SplitSectionsLoop(lines, i + 1, sections, current_section,
                               current_content)

split_sections(lines) == SplitSectionsLoop(lines, 1, <<>>, <<>>, <<>>)

\* Lines 306-335: one line of [Song].
SongLine(c, line) ==
    IF line.kind # "assign" THEN Ok(c)
    ELSE LET key == Strip(line.lhs)
             value == StripChars(Strip(line.rhs), {Quote})
         IN  CASE key = <<"Name">> -> Ok([c EXCEPT !.name = value])
               [] key = <<"Artist">> -> Ok([c EXCEPT !.artist = value])
               [] key = <<"Album">> -> Ok([c EXCEPT !.album = value])
               [] key = <<"Genre">> -> Ok([c EXCEPT !.genre = value])
               [] key = <<"Year">> -> Ok([c EXCEPT !.year = value])
               [] key = <<"Charter">> -> Ok([c EXCEPT !.charter = value])
               [] key = <<"Offset">> ->
                    IF FloatOk(value) THEN Ok([c EXCEPT !.offset = PyFloat(value)])
                    ELSE Failed
               [] key = <<"Resolution">> ->
                    IF IntOk(value) THEN Ok([c EXCEPT !.resolution = PyInt(value)])
                    ELSE Failed
               [] key = <<"Difficulty">> ->
                    IF IntOk(value) THEN Ok([c EXCEPT !.difficulty = PyInt(value)])
                    ELSE Failed
               [] key = <<"PreviewStart">> ->
                    IF FloatOk(value)
                    THEN Ok([c EXCEPT !.preview_start = PyFloat(value)])
                    ELSE Failed
               [] key = <<"PreviewEnd">> ->
                    IF FloatOk(value)
                    THEN Ok([c EXCEPT !.preview_end = PyFloat(value)])
                    ELSE Failed
               [] OTHER -> Ok(c)

RECURSIVE SongLoop(_, _, _)
SongLoop(r, content, i) ==
    IF i > Len(content) \/ ~r.ok THEN r
    ELSE SongLoop(SongLine(r.chart, content[i]), content, i + 1)

parse_song_section(c, content) == SongLoop(Ok(c), content, 1)

\* Lines 341-361: one line of [SyncTrack].  milli_bpm / 1000.0 is the
\* double nearest to the quotient.
SyncLine(c, line) ==
    IF line.kind # "assign" THEN Ok(c)
    ELSE IF ~IntOk(Strip(line.lhs)) THEN Failed
    ELSE LET tick == PyInt(Strip(line.lhs))
             event_data == Split(Strip(line.rhs))
         IN  IF event_data = <<>> THEN Failed
             ELSE IF event_data[1] = <<"B">>
             THEN IF Len(event_data) < 2 \/ ~IntOk(event_data[2]) THEN Failed
                  ELSE Ok([c EXCEPT !.bpm_changes =
                              Append(@, BPMChange(tick, PyInt(event_data[2])
                                                            * (FloatScale \div 1000)))])
             ELSE IF event_data[1] = <<"TS">>
             THEN IF Len(event_data) < 2 \/ ~IntOk(event_data[2]) THEN Failed
                  ELSE IF Len(event_data) > 2 /\ ~IntOk(event_data[3]) THEN Failed
                  ELSE Ok([c EXCEPT !.time_signatures =
                              Append(@, TimeSignature(tick, PyInt(event_data[2]),
                                         IF Len(event_data) > 2
                                         THEN PyInt(event_data[3]) ELSE 2))])
             ELSE Ok(c)

RECURSIVE SyncLoop(_, _, _)
SyncLoop(r, content, i) ==
    IF i > Len(content) \/ ~r.ok THEN r
    ELSE SyncLoop(SyncLine(r.chart, content[i]), content, i + 1)

parse_sync_track(c, content) == SyncLoop(Ok(c), content, 1)

StartsWith(t, prefix) ==
    Len(t) >= Len(prefix) /\ SubSeq(t, 1, Len(prefix)) = prefix

\* event_data.split('"')[1]: the text between the first double quote and
\* the second (or the end).
BetweenQuotes(t) ==
    LET quotes == {i \in 1..Len(t) : t[i] = Quote}
        first == CHOOSE i \in quotes : \A j \in quotes : i <= j
        later == {i \in quotes : i > first}
        second == IF later = {} THEN Len(t) + 1
                  ELSE CHOOSE i \in later : \A j \in later : i <= j
    IN  SubSeq(t, first + 1, second - 1)

\* str.replace('section ', '')
RECURSIVE RemoveSectionWord(_)
RemoveSectionWord(t) ==
    IF t = <<>> THEN <<>>
    ELSE IF StartsWith(t, <<"section", Space>>)
    THEN RemoveSectionWord(SubSeq(t, 3, Len(t)))
    ELSE <<Head(t)>> \o RemoveSectionWord(Tail(t))

\* Lines 367-382: one line of [Events].
EventsLine(c, line) ==
    IF line.kind # "assign" THEN Ok(c)
    ELSE IF ~IntOk(Strip(line.lhs)) THEN Failed
    ELSE LET tick == PyInt(Strip(line.lhs))
             event_data == Strip(line.rhs)
         IN  IF StartsWith(event_data, <<"E", Space, Quote, "section">>)
             THEN Ok([c EXCEPT !.sections =
                         Append(@, Section(tick,
                                    RemoveSectionWord(BetweenQuotes(event_data))))])
             ELSE Ok([c EXCEPT !.events =
                         Append(@, Event(tick,
                                    StripChars(StripChars(event_data, {"E", Space}),
                                               {Quote})))])

RECURSIVE EventsLoop(_, _, _)
EventsLoop(r, content, i) ==
    IF i > Len(content) \/ ~r.ok THEN r
    ELSE EventsLoop(EventsLine(r.chart, content[i]), content, i + 1)

parse_events(c, content) == EventsLoop(Ok(c), content, 1)

\* Lines 388-404.
difficulty_map ==
    <<[name |-> "Easy", difficulty |-> "EASY"],
      [name |-> "Medium", difficulty |-> "MEDIUM"],
      [name |-> "Hard", difficulty |-> "HARD"],
      [name |-> "Expert", difficulty |-> "EXPERT"]>>

instrument_map ==
    [n \in {"Single", "DoubleBass", "DoubleRhythm", "DoubleGuitar", "Keyboard",
            "Drums", "GHLGuitar", "GHLBass"} |->
        CASE n = "Single" -> "GUITAR"
          [] n = "DoubleBass" -> "BASS"
          [] n = "DoubleRhythm" -> "RHYTHM"
          [] n = "DoubleGuitar" -> "COOP"
          [] n = "Keyboard" -> "KEYS"
          [] n = "Drums" -> "DRUMS"
          [] n = "GHLGuitar" -> "GHL_GUITAR"
          [] n = "GHLBass" -> "GHL_BASS"]

\* A section of an unknown instrument is taken for the guitar's.
TrackOfSection_default_instrument(section_name) ==
    IF section_name = <<>>
       \/ ~\E k \in 1..Len(difficulty_map) : difficulty_map[k].name = section_name[1]
    THEN None
    ELSE LET k == CHOOSE j \in 1..Len(difficulty_map) :
                      difficulty_map[j].name = section_name[1]
             instrument_name == Tail(section_name)
         IN  [is_none |-> FALSE,
              difficulty |-> difficulty_map[k].difficulty,
              instrument |->
                  IF Len(instrument_name) = 1
                     /\ instrument_name[1] \in DOMAIN instrument_map
                  THEN instrument_map[instrument_name[1]] ELSE "GUITAR"]

\* Lines 406-418: (difficulty, instrument) of a section name, None for an
\* unknown track.
TrackOfSection(section_name) ==
    IF section_name = <<>>
       \/ ~\E k \in 1..Len(difficulty_map) : difficulty_map[k].name = section_name[1]
    THEN None
    ELSE LET k == CHOOSE j \in 1..Len(difficulty_map) :
                      difficulty_map[j].name = section_name[1]
             instrument_name == Tail(section_name)
         IN  IF Len(instrument_name) = 1 /\ instrument_name[1] \in DOMAIN instrument_map
             THEN [is_none |-> FALSE,
                   difficulty |-> difficulty_map[k].difficulty,
                   instrument |-> instrument_map[instrument_name[1]]]
             ELSE None

\* note_buffer[tick][fret] = note, on the dict of dicts kept as the list of
\* its notes in iteration order (ticks in insertion order, the frets of a
\* tick in insertion order).
BufferPut(note_buffer, note) ==
    LET same == {i \in 1..Len(note_buffer) :
                    note_buffer[i].tick = note.tick /\ note_buffer[i].fret = note.fret}
        at_tick == {i \in 1..Len(note_buffer) : note_buffer[i].tick = note.tick}
    IN  IF same # {}
        THEN [i \in 1..Len(note_buffer) |-> IF i \in same THEN note ELSE note_buffer[i]]
        ELSE IF at_tick # {}
        THEN LET last == SetMax(at_tick)
             IN  SubSeq(note_buffer, 1, last) \o <<note>>
                 \o SubSeq(note_buffer, last + 1, Len(note_buffer))
        ELSE Append(note_buffer, note)

\* Lines 445-447: the notes buffered at the tick so far are marked.
MarkForced(note_buffer, tick) ==
    [i \in 1..Len(note_buffer) |->
        IF note_buffer[i].tick = tick
        THEN [note_buffer[i] EXCEPT !.is_forced = TRUE] ELSE note_buffer[i]]

\* Lines 451-453.
MarkTap(note_buffer, tick) ==
    [i \in 1..Len(note_buffer) |->
        IF note_buffer[i].tick = tick
        THEN [note_buffer[i] EXCEPT !.is_tap = TRUE] ELSE note_buffer[i]]

TrackFailed == [ok |-> FALSE, track |-> EmptyTrack, note_buffer |-> <<>>]

\* Lines 426-479: one line of a track section.
TrackLine(st, line) ==
    IF line.kind # "assign" THEN st
    ELSE IF ~IntOk(Strip(line.lhs)) THEN TrackFailed
    ELSE LET tick == PyInt(Strip(line.lhs))
             event_data == Split(Strip(line.rhs))
         IN  IF event_data = <<>> THEN TrackFailed
             ELSE IF event_data[1] = <<"N">>
             THEN IF Len(event_data) < 3 \/ ~IntOk(event_data[2]) \/ ~IntOk(event_data[3])
                  THEN TrackFailed
                  ELSE LET fret == PyInt(event_data[2])
                           sustain == PyInt(event_data[3])
                       IN  IF fret = FORCED
                           THEN [st EXCEPT !.note_buffer = MarkForced(@, tick)]
                           ELSE IF fret = TAP
                           THEN [st EXCEPT !.note_buffer = MarkTap(@, tick)]
                           ELSE IF fret = OPEN
                           THEN [st EXCEPT !.note_buffer =
                                    BufferPut(@, Note(tick, fret, sustain,
                                                      FALSE, FALSE, TRUE))]
                           ELSE [st EXCEPT !.note_buffer =
                                    BufferPut(@, Note(tick, fret, sustain,
                                                      FALSE, FALSE, FALSE))]
             ELSE IF event_data[1] = <<"S">>
             THEN IF Len(event_data) < 3 \/ ~IntOk(event_data[2]) \/ ~IntOk(event_data[3])
                  THEN TrackFailed
                  ELSE IF PyInt(event_data[2]) = 2
                  THEN [st EXCEPT !.track.star_power =
                           Append(@, StarPowerPhrase(tick, PyInt(event_data[3])))]
                  ELSE st
             ELSE IF event_data[1] = <<"E">>
             THEN [st EXCEPT !.track.events =
                      Append(@, Event(tick, StripChars(JoinSpace(Tail(event_data)),
                                                       {Quote})))]
             ELSE st

RECURSIVE TrackLoop(_, _, _)
TrackLoop(st, content, i) ==
    IF i > Len(content) \/ ~st.ok THEN st
    ELSE TrackLoop(TrackLine(st, content[i]), content, i + 1)

\* Lines 482-484.
RECURSIVE FlushBuffer(_, _, _)
FlushBuffer(t, note_buffer, i) ==
    IF i > Len(note_buffer) THEN t
    ELSE FlushBuffer(add_note(t, note_buffer[i]), note_buffer, i + 1)

parse_track_section(c, section_name, content) ==
    LET which == TrackOfSection(section_name)
    IN  IF which = None THEN Ok(c)
        ELSE LET st == TrackLoop([ok |-> TRUE, track |-> EmptyTrack,
                                  note_buffer |-> <<>>], content, 1)
             IN  IF ~st.ok THEN Failed
                 ELSE Ok(set_track(c, which.instrument, which.difficulty,
                                   FlushBuffer(st.track, st.note_buffer, 1)))

\* Lines 259-268.
RECURSIVE ParseSectionsLoop(_, _, _)
ParseSectionsLoop(r, sections, i) ==
    IF i > Len(sections) \/ ~r.ok THEN r
    ELSE LET section_name == sections[i].name
             content == sections[i].content
         IN  ParseSectionsLoop(
                 IF section_name = <<"Song">>
                 THEN parse_song_section(r.chart, content)
                 ELSE IF section_name = <<"SyncTrack">>
                 THEN parse_sync_track(r.chart, content)
                 ELSE IF section_name = <<"Events">>
                 THEN parse_events(r.chart, content)
                 ELSE parse_track_section(r.chart, section_name, content),
                 sections, i + 1)

parse_file(lines) == ParseSectionsLoop(Ok(DefaultChart), split_sections(lines), 1)

-----------------------------------------------------------------------------
(* src/src/chart_writer.py                                                 *)

\* int(n / d) for integers n and d > 0: the quotient is a double, exact to
\* the last unit below 2^53, and int() drops its fraction (towards zero).
IntOfQuotient(n, d) == IF n >= 0 THEN n \div d ELSE -((-n) \div d)

\* The remainder is taken for the quotient.
midi_ticks_to_chart_ticks_remainder(ticks, ppq, resolution) ==
    (ticks * resolution) % ppq

\* The quotient is rounded to the nearest integer.
midi_ticks_to_chart_ticks_rounded(ticks, ppq, resolution) ==
    RoundHalfEven(ticks * resolution, ppq)

\* Lines 45-65.
midi_ticks_to_chart_ticks(ticks, ppq, resolution) ==
    IntOfQuotient(ticks * resolution, ppq)

\* Lines 171-188.
format_note_line(chart_tick, lane, sustain_length) ==
    EventLine2(chart_tick, "N", IntToText(lane), IntToText(sustain_length))

\* Lines 215-231: the line of one note.
NoteSectionLine(note, lane, ppq, resolution, min_sustain_ticks) ==
    LET chart_start == midi_ticks_to_chart_ticks(note.start_tick, ppq, resolution)
        chart_end == midi_ticks_to_chart_ticks(note.end_tick, ppq, resolution)
        duration == chart_end - chart_start
        sustain == IF duration >= min_sustain_ticks THEN duration ELSE 0
    IN  format_note_line(chart_start, lane, sustain)

\* Lines 191-235; the lines are joined with newlines.
format_notes_section(ns, ls, ppq, resolution, sustain_beats, difficulty) ==
    LET min_sustain_ticks == IntOfProduct(sustain_beats, resolution)
    IN  <<HeaderLine(<<difficulty, "Single">>), BraceLine("{")>>
        \o [i \in 1..Min2(Len(ns), Len(ls)) |->
               NoteSectionLine(ns[i], ls[i], ppq, resolution, min_sustain_ticks)]
        \o <<BraceLine("}")>>

\* Line 116: int(bpm * 1000), for bpm >= 0; the product is a double.
bpm_value(b) ==
    IF b \in ProductBelow THEN (b \div (FloatScale \div 1000)) - 1
    ELSE b \div (FloatScale \div 1000)

\* int(math.log2(d)) for d >= 1.
RECURSIVE Log2Int(_)
Log2Int(d) == IF d < 2 THEN 0 ELSE 1 + Log2Int(d \div 2)

\* Line 121.
ts_denom_exp(denominator) == IF denominator > 0 THEN Log2Int(denominator) ELSE 2

\* Lines 98-131; the lines are joined with newlines.
format_sync_track(b, numerator, denominator) ==
    <<HeaderLine(<<"SyncTrack">>), BraceLine("{"),
      EventLine2(0, "TS", IntToText(numerator),
                 IntToText(ts_denom_exp(denominator))),
      EventLine1(0, "B", IntToText(bpm_value(b))),
      BraceLine("}")>>

-----------------------------------------------------------------------------
(* The mapping engine as a state machine: the caller holds a note list     *)
(* and either maps it to lanes or supplies lanes of its own, then runs     *)
(* the QA detection on the pair.                                           *)

\* The download manager right after construction (lines 54-78): no task,
\* empty queues, no worker thread.
DlIdle ==
    /\ status = [t \in TaskIds |-> ""]
    /\ retry_count = [t \in TaskIds |-> 0]
    /\ download_queue = <<>>
    /\ retry_queue = <<>>
    /\ completed = <<>>
    /\ errored = <<>>
    /\ is_running = FALSE
    /\ worker = [w \in WorkerIds |-> [at |-> "none", task |-> NoTask]]
    /\ worker_thread = NoWorker
    /\ caller = "ready"
    /\ cancelled = {}
    /\ attempts = [t \in TaskIds |-> 0]
    /\ stop_calls = 0
    /\ retry_calls = 0

\* The document model untouched: its state right after construction.
DocIdle ==
    /\ track = EmptyTrack
    /\ inserted = <<>>
    /\ chart = DefaultChart
    /\ set_log = <<>>
    /\ text = <<>>
    /\ parsed = None

\* No step of the mapping engine called on its own.
StepIdle ==
    /\ segmented = <<>>
    /\ smooth_out = <<>>

\* The mapping engine not in use.
MapIdle ==
    /\ notes = <<>>
    /\ ticks_per_beat = 480
    /\ phrase_silence_beats = [num |-> 1, den |-> 1]
    /\ max_lane_jump = 2
    /\ smoothing_passes = 1
    /\ lanes = <<>>
    /\ issues = <<>>
    /\ mapped = None
    /\ StepIdle

\* format_sync_track not called: its defaults, and no output.
SyncIdle ==
    /\ bpm = 1200000
    /\ time_sig_numerator = 4
    /\ time_sig_denominator = 4
    /\ sync_track = <<>>

\* The chart writer (src/src/chart_writer.py) not in use.
WriterIdle ==
    /\ midi_ticks = <<>>
    /\ midi_ppq = 480
    /\ chart_resolution = CHART_RESOLUTION
    /\ min_sustain_beats = [num |-> 1, den |-> 2]
    /\ chart_ticks = <<>>
    /\ section = <<>>
    /\ SyncIdle

RECURSIVE MkNotes(_, _, _, _)
MkNotes(pitches, gaps, i, acc) ==
    IF i > Len(pitches) THEN acc
    ELSE LET start == IF i = 1 THEN 0 ELSE acc[i - 1].end_tick + gaps[i - 1]
         IN  MkNotes(pitches, gaps, i + 1,
                     Append(acc, NoteEvent(start, start + 1, pitches[i])))

SeqsUpTo(S, n) == UNION {[1..k -> S] : k \in 0..n}

MapInputs ==
    UNION {{MkNotes(ps, gs, 1, <<>>) : ps \in [1..k -> PitchSet],
                                       gs \in [1..(IF k = 0 THEN 0 ELSE k - 1) -> GapSet]}
           : k \in 0..MaxNotes}

QAInputs ==
    UNION {{MkNotes(ps, [j \in 1..(IF k = 0 THEN 0 ELSE k - 1) |-> 0], 1, <<>>)
               : ps \in [1..k -> QAPitchSet]} : k \in 0..MaxQANotes}

InitMap ==
    /\ pc = "notes"
    /\ notes \in MapInputs
    /\ ticks_per_beat \in TpbSet
    /\ phrase_silence_beats \in SilenceSet
    /\ max_lane_jump \in 0..4
    /\ smoothing_passes \in 0..MaxPasses
    /\ lanes = <<>>
    /\ issues = <<>>
    /\ mapped = None
    /\ StepIdle
    /\ DocIdle
    /\ WriterIdle
    /\ DlIdle

InitQA ==
    /\ pc = "given"
    /\ notes \in QAInputs
    /\ ticks_per_beat \in TpbSet
    /\ phrase_silence_beats = [num |-> 1, den |-> 1]
    /\ max_lane_jump = 2
    /\ smoothing_passes = 1
    /\ lanes \in SeqsUpTo(LaneSet, MaxQANotes)
    /\ issues = <<>>
    /\ mapped = None
    /\ StepIdle
    /\ DocIdle
    /\ WriterIdle
    /\ DlIdle

MapPitchesToLanes ==
    /\ pc = "notes"
    /\ lanes' = map_pitches_to_lanes(notes, ticks_per_beat, phrase_silence_beats,
                                     max_lane_jump, smoothing_passes)
    /\ pc' = "mapped"
    /\ UNCHANGED <<notes, ticks_per_beat, phrase_silence_beats, max_lane_jump,
                   smoothing_passes, issues, mapped, stepVars, docVars,
                   writerVars, dlVars>>

DetectQA ==
    /\ pc \in {"mapped", "given"}
    /\ issues' = detect_qa_issues(notes, lanes)
    /\ pc' = IF pc = "mapped" THEN "checked_mapped" ELSE "checked_given"
    /\ UNCHANGED <<notes, ticks_per_beat, phrase_silence_beats, max_lane_jump,
                   smoothing_passes, lanes, mapped, stepVars, docVars,
                   writerVars, dlVars>>

NextMap == MapPitchesToLanes \/ DetectQA

SpecMap == InitMap /\ [][NextMap]_vars

\* Pitch runs: the pitches of a run lie in 60..60 + RunSpan.
RunSpan == 8

RECURSIVE AscendingSeq(_)
AscendingSeq(S) ==
    IF S = {} THEN <<>> ELSE <<SetMin(S)>> \o AscendingSeq(S \ {SetMin(S)})

RECURSIVE DescendingSeq(_)
DescendingSeq(S) ==
    IF S = {} THEN <<>> ELSE <<SetMax(S)>> \o DescendingSeq(S \ {SetMax(S)})

\* Quarter notes 10 ticks short of a beat, as in the tests of the scales.
RunNotes(pitches) ==
    [i \in 1..Len(pitches) |->
        NoteEvent((i - 1) * 480, i * 480 - 10, pitches[i])]

RunInputs ==
    {RunNotes(AscendingSeq(S)) : S \in SUBSET (60..(60 + RunSpan))}
    \cup {RunNotes(DescendingSeq(S)) : S \in SUBSET (60..(60 + RunSpan))}

\* map_pitches_to_lanes(notes, ticks_per_beat=480) with its defaults.
InitRun ==
    /\ pc = "notes"
    /\ notes \in RunInputs
    /\ ticks_per_beat = 480
    /\ phrase_silence_beats = [num |-> 1, den |-> 1]
    /\ max_lane_jump = 2
    /\ smoothing_passes = 1
    /\ lanes = <<>>
    /\ issues = <<>>
    /\ mapped = None
    /\ StepIdle
    /\ DocIdle
    /\ WriterIdle
    /\ DlIdle

SpecRun == InitRun /\ [][NextMap]_vars

\* create_mapped_notes(notes, lanes, include_qa) on the caller's lists.
CreateMappedNotes(include_qa) ==
    /\ pc = "given"
    /\ mapped' = create_mapped_notes(notes, lanes, include_qa)
    /\ pc' = IF include_qa THEN "combined_qa" ELSE "combined_plain"
    /\ UNCHANGED <<notes, ticks_per_beat, phrase_silence_beats, max_lane_jump,
                   smoothing_passes, lanes, issues, stepVars, docVars,
                   writerVars, dlVars>>

NextQA == DetectQA \/ \E include_qa \in BOOLEAN : CreateMappedNotes(include_qa)

SpecQA == InitQA /\ [][NextQA]_vars

\* map_pitches_to_lanes on longer note lists over two pitches, in one or
\* several phrases, with the jump limit in force.
MaxJumpNotes == 4

JumpPitchSet == {60, 61}

JumpInputs ==
    UNION {{MkNotes(ps, gs, 1, <<>>) : ps \in [1..k -> JumpPitchSet],
                                      gs \in [1..(IF k = 0 THEN 0 ELSE k - 1) -> GapSet]}
           : k \in 0..MaxJumpNotes}

InitJump ==
    /\ pc = "notes"
    /\ notes \in JumpInputs
    /\ ticks_per_beat \in TpbSet
    /\ phrase_silence_beats = [num |-> 1, den |-> 2]
    /\ max_lane_jump \in 1..2
    /\ smoothing_passes \in 1..MaxPasses
    /\ lanes = <<>>
    /\ issues = <<>>
    /\ mapped = None
    /\ StepIdle
    /\ DocIdle
    /\ WriterIdle
    /\ DlIdle

SpecJump == InitJump /\ [][NextMap]_vars

\* segment_into_phrases on its own: notes one tick long, gaps of 0 to 3
\* ticks, thresholds 1, 1.5, 2 and 3 ticks.
MaxPhraseNotes == 4

PhraseGapSet == 0..3
PhraseTpbSet == {2, 3}
PhraseSilenceSet == {[num |-> 1, den |-> 2], [num |-> 1, den |-> 1]}

PhraseInputs ==
    UNION {{MkNotes([j \in 1..k |-> 60], gs, 1, <<>>)
               : gs \in [1..(IF k = 0 THEN 0 ELSE k - 1) -> PhraseGapSet]}
           : k \in 0..MaxPhraseNotes}

InitPhrase ==
    /\ pc = "phrase_in"
    /\ notes \in PhraseInputs
    /\ ticks_per_beat \in PhraseTpbSet
    /\ phrase_silence_beats \in PhraseSilenceSet
    /\ max_lane_jump = 2
    /\ smoothing_passes = 1
    /\ lanes = <<>>
    /\ issues = <<>>
    /\ mapped = None
    /\ StepIdle
    /\ DocIdle
    /\ WriterIdle
    /\ DlIdle

\* segment_into_phrases(notes, ticks_per_beat, phrase_silence_beats).
SegmentIntoPhrases ==
    /\ pc = "phrase_in"
    /\ segmented' = segment_into_phrases(notes, ticks_per_beat,
                                         phrase_silence_beats)
    /\ pc' = "phrase_out"
    /\ UNCHANGED <<notes, ticks_per_beat, phrase_silence_beats, max_lane_jump,
                   smoothing_passes, lanes, issues, mapped, smooth_out, docVars,
                   writerVars, dlVars>>

NextPhrase == SegmentIntoPhrases

SpecPhrase == InitPhrase /\ [][NextPhrase]_vars

\* smooth_lanes on its own, on every lane list up to a length.
MaxSmoothLanes == 4

InitSmooth ==
    /\ pc = "smooth_in"
    /\ lanes \in SeqsUpTo(LaneSet, MaxSmoothLanes)
    /\ max_lane_jump \in 0..4
    /\ smoothing_passes \in 0..MaxPasses
    /\ notes = <<>>
    /\ ticks_per_beat = 480
    /\ phrase_silence_beats = [num |-> 1, den |-> 1]
    /\ issues = <<>>
    /\ mapped = None
    /\ StepIdle
    /\ DocIdle
    /\ WriterIdle
    /\ DlIdle

\* smooth_lanes(lanes, max_lane_jump, smoothing_passes).
SmoothLanes ==
    /\ pc = "smooth_in"
    /\ smooth_out' = smooth_lanes(lanes, max_lane_jump, smoothing_passes)
    /\ pc' = "smooth_out"
    /\ UNCHANGED <<notes, ticks_per_beat, phrase_silence_beats, max_lane_jump,
                   smoothing_passes, lanes, issues, mapped, segmented, docVars,
                   writerVars, dlVars>>

NextSmooth == SmoothLanes

SpecSmooth == InitSmooth /\ [][NextSmooth]_vars

-----------------------------------------------------------------------------
(* The document model as a state machine: notes are added to a Track one   *)
(* by one; tracks are set in a Chart.                                      *)

NoteInputs ==
    {Note(t, f, s, FALSE, FALSE, FALSE) : t \in 0..1, f \in 0..1, s \in 0..1}

TrackInputs ==
    {EmptyTrack, add_note(EmptyTrack, Note(0, 0, 0, FALSE, FALSE, FALSE))}

InitTrack ==
    /\ pc = "track"
    /\ MapIdle
    /\ WriterIdle
    /\ DocIdle
    /\ DlIdle

AddNote(note) ==
    /\ pc = "track"
    /\ Len(inserted) < MaxTrackNotes
    /\ track' = add_note(track, note)
    /\ inserted' = Append(inserted, note)
    /\ UNCHANGED <<pc, mapVars, writerVars, chart, set_log, text, parsed, dlVars>>

NextTrack == \E note \in NoteInputs : AddNote(note)

SpecTrack == InitTrack /\ [][NextTrack]_vars

InitChart ==
    /\ pc = "chart"
    /\ MapIdle
    /\ WriterIdle
    /\ DocIdle
    /\ DlIdle

SetTrack(instrument, difficulty, t) ==
    /\ pc = "chart"
    /\ Len(set_log) < MaxSetCalls
    /\ chart' = set_track(chart, instrument, difficulty, t)
    /\ set_log' = Append(set_log, [instrument |-> instrument,
                                   difficulty |-> difficulty, track |-> t])
    /\ UNCHANGED <<pc, mapVars, writerVars, track, inserted, text, parsed, dlVars>>

NextChart ==
    \E instrument \in Instruments, difficulty \in Difficulties, t \in TrackInputs :
        SetTrack(instrument, difficulty, t)

SpecChart == InitChart /\ [][NextChart]_vars

-----------------------------------------------------------------------------
(* The chart writer as a state machine: the tick converter on two tick     *)
(* positions, and format_notes_section on notes with their lanes.          *)

MaxTick == 10

TickInputs == 0..MaxTick \cup {479, 480, 481, 960}
PpqInputs == {1, 3, 7, 480}
ResolutionInputs == {1, 3, 6, 192}

InitTick ==
    /\ pc = "ticks"
    /\ midi_ticks \in [1..2 -> TickInputs]
    /\ midi_ppq \in PpqInputs
    /\ chart_resolution \in ResolutionInputs
    /\ min_sustain_beats = [num |-> 1, den |-> 2]
    /\ chart_ticks = <<>>
    /\ section = <<>>
    /\ SyncIdle
    /\ MapIdle
    /\ DocIdle
    /\ DlIdle

\* midi_ticks_to_chart_ticks on each of the tick positions.
ConvertTicks ==
    /\ pc = "ticks"
    /\ chart_ticks' = [i \in 1..Len(midi_ticks) |->
                          midi_ticks_to_chart_ticks(midi_ticks[i], midi_ppq,
                                                    chart_resolution)]
    /\ pc' = "converted"
    /\ UNCHANGED <<mapVars, docVars, midi_ticks, midi_ppq, chart_resolution,
                   min_sustain_beats, section, syncVars, dlVars>>

NextTick == ConvertTicks

SpecTick == InitTick /\ [][NextTick]_vars

MaxSectionNotes == 2

\* Notes of 1, 143, 239, 240 and 960 ticks, starting at tick 0 or 480.
SustainNoteInputs ==
    {NoteEvent(start, start + length, 60) :
        start \in {0, 480}, length \in {1, 143, 239, 240, 960}}

\* min_sustain_beats 0.5 and 0.3; a resolution whose half is no integer.
SustainBeatsInputs == {[num |-> 1, den |-> 2], [num |-> 3, den |-> 10]}
SectionResolutionInputs == {192, 193}

InitSection ==
    /\ pc = "section_in"
    /\ \E k \in 0..MaxSectionNotes :
          /\ notes \in [1..k -> SustainNoteInputs]
          /\ lanes \in [1..k -> {0, 4}]
    /\ midi_ppq = 480
    /\ chart_resolution \in SectionResolutionInputs
    /\ min_sustain_beats \in SustainBeatsInputs
    /\ midi_ticks = <<>>
    /\ chart_ticks = <<>>
    /\ section = <<>>
    /\ SyncIdle
    /\ ticks_per_beat = 480
    /\ phrase_silence_beats = [num |-> 1, den |-> 1]
    /\ max_lane_jump = 2
    /\ smoothing_passes = 1
    /\ issues = <<>>
    /\ mapped = None
    /\ StepIdle
    /\ DocIdle
    /\ DlIdle

\* format_notes_section(notes, lanes, midi_ppq, chart_resolution,
\* min_sustain_beats) with the default difficulty.
FormatNotesSection ==
    /\ pc = "section_in"
    /\ section' = format_notes_section(notes, lanes, midi_ppq, chart_resolution,
                                       min_sustain_beats, "Expert")
    /\ pc' = "section_out"
    /\ UNCHANGED <<mapVars, docVars, midi_ticks, midi_ppq, chart_resolution,
                   min_sustain_beats, chart_ticks, syncVars, dlVars>>

NextSection == FormatNotesSection

SpecSection == InitSection /\ [][NextSection]_vars

MaxMilli == 12

\* bpm 1.000, 1.001, ..., 120.0 and 120.0005, in units of 1/FloatScale.
SyncBpmInputs == {10000 + 10 * k : k \in 0..MaxMilli} \cup {1200000, 1200005}
NumeratorInputs == {3, 4, 6}
DenominatorInputs == {0, 1, 2, 3, 4, 8, 16}

InitSync ==
    /\ pc = "sync_in"
    /\ bpm \in SyncBpmInputs
    /\ time_sig_numerator \in NumeratorInputs
    /\ time_sig_denominator \in DenominatorInputs
    /\ sync_track = <<>>
    /\ midi_ticks = <<>>
    /\ midi_ppq = 480
    /\ chart_resolution = CHART_RESOLUTION
    /\ min_sustain_beats = [num |-> 1, den |-> 2]
    /\ chart_ticks = <<>>
    /\ section = <<>>
    /\ MapIdle
    /\ DocIdle
    /\ DlIdle

\* format_sync_track(bpm, time_sig_numerator, time_sig_denominator).
FormatSyncTrack ==
    /\ pc = "sync_in"
    /\ sync_track' = format_sync_track(bpm, time_sig_numerator,
                                       time_sig_denominator)
    /\ pc' = "sync_out"
    /\ UNCHANGED <<mapVars, docVars, midi_ticks, midi_ppq, chart_resolution,
                   min_sustain_beats, chart_ticks, section, bpm,
                   time_sig_numerator, time_sig_denominator, dlVars>>

NextSync == FormatSyncTrack

SpecSync == InitSync /\ [][NextSync]_vars

-----------------------------------------------------------------------------
(* Writing a Chart to a file and parsing the file again                    *)
(* (ChartParser.write_file, then ChartParser.parse_file on the same path). *)

MaxChartNotes == 2
MaxTempo == 2

ChartTickSet == {0, 192}
ChartNoteInputs ==
    {Note(t, f, s, fo, ta, FALSE) :
        t \in ChartTickSet, f \in {0, 1}, s \in {0, 96},
        fo \in BOOLEAN, ta \in BOOLEAN}

RECURSIVE AddNotes(_, _)
AddNotes(t, ns) == IF ns = <<>> THEN t ELSE AddNotes(add_note(t, Head(ns)), Tail(ns))

\* Tracks built with add_note from notes of distinct (tick, fret).
ChartTracks ==
    {AddNotes(EmptyTrack, ns) :
        ns \in {q \in SeqsUpTo(ChartNoteInputs, MaxChartNotes) :
                   \A i, j \in 1..Len(q) :
                       i < j => (q[i].tick < q[j].tick
                                 \/ (q[i].tick = q[j].tick /\ q[i].fret < q[j].fret))}}

NoteCharts ==
    {set_track(DefaultChart, "GUITAR", "EXPERT", t) : t \in ChartTracks}
    \cup {set_track(set_track(DefaultChart, "GUITAR", "EASY", t), "BASS", "EXPERT", t) :
             t \in {u \in ChartTracks : Len(u.notes) = 1}}
    \cup {set_track(set_track(DefaultChart, "GUITAR", "EXPERT", t), "BASS", "EASY", t) :
             t \in {u \in ChartTracks : Len(u.notes) = 1}}

\* bpm in units of 1/FloatScale: 120.0, 1.001 and 120.0005.
BpmInputs == {1200000, 10010, 1200005}
TempoTickSet == {0, 192, 384}
BpmLists ==
    {q \in SeqsUpTo({BPMChange(t, b) : t \in TempoTickSet, b \in BpmInputs}, MaxTempo) :
        \A i, j \in 1..Len(q) : i < j => q[i].tick < q[j].tick}
TimeSignatureLists ==
    {q \in SeqsUpTo({TimeSignature(t, n, d) :
                        t \in TempoTickSet, n \in {4, 6}, d \in {2, 3}}, MaxTempo) :
        \A i, j \in 1..Len(q) : i < j => q[i].tick < q[j].tick}

TempoCharts ==
    {[DefaultChart EXCEPT !.bpm_changes = b, !.time_signatures = t] :
        b \in BpmLists, t \in TimeSignatureLists}

\* offset and preview times in units of 1/FloatScale: 0.0, -2.5, 1.5, -1.0.
MetaCharts ==
    {[DefaultChart EXCEPT !.name = n, !.genre = g, !.album = a, !.offset = o,
                          !.difficulty = d, !.preview_start = ps] :
        n \in {<<"Untitled">>, <<>>, <<"My", Space, "Song">>},
        g \in {<<"rock">>, <<>>, <<"metal">>},
        a \in {<<>>, <<"Album">>},
        o \in {0, -25000},
        d \in {-1, 0, 3},
        ps \in {0, 15000, -10000}}

RTCharts == NoteCharts \cup TempoCharts \cup MetaCharts

MaxTextLines == 3

\* The lines of a track section: notes on frets 0 and 1, forced and tap
\* flag lines, at two ticks.
TrackLineInputs ==
    {EventLine2(t, "N", IntToText(f), IntToText(0)) :
        t \in ChartTickSet, f \in {0, 1, FORCED, TAP}}

SectionText(body) ==
    <<HeaderLine(<<"Expert", "Single">>), BraceLine("{")>> \o body \o <<BraceLine("}")>>

FlagTexts == {SectionText(body) : body \in SeqsUpTo(TrackLineInputs, MaxTextLines)}

MaxSections == 2

\* A line `<lhs> = <words separated by blanks>`.
WordsLine(lhs, words) == PlainLine(lhs, JoinSpace(words))

\* Lines of [Song]: known keys, keys the parser does not know, a value that
\* is no number, a line cut before its '='.
SongLineInputs ==
    {QuotedLine(<<"Name">>, <<"a">>),
     PlainLine(<<"Resolution">>, <<"4", "8", "0">>),
     PlainLine(<<"Offset">>, <<"1", ".", "5">>),
     QuotedLine(<<"MediaType">>, <<"cd">>),
     PlainLine(<<"Player2">>, <<"bass">>),
     PlainLine(<<"Resolution">>, <<"x">>),
     OtherLine(<<"Resolution">>)}

\* Lines of [SyncTrack]: tempo and time signature, an event type the parser
\* does not know, a missing argument, a tick that is no integer, a cut line.
SyncLineInputs ==
    {WordsLine(<<"0">>, <<(<<"B">>), <<"1", "2", "0", "0", "0", "0">>>>),
     WordsLine(<<"0">>, <<(<<"TS">>), <<"6">>, <<"3">>>>),
     WordsLine(<<"0">>, <<(<<"A">>), <<"5">>>>),
     WordsLine(<<"0">>, <<(<<"B">>)>>),
     WordsLine(<<"x">>, <<(<<"B">>), <<"1", "2", "0", "0", "0", "0">>>>),
     OtherLine(<<"0">>)}

\* Lines of [Events].
EventsLineInputs ==
    {PlainLine(<<"0">>, <<"E", Space, Quote, "section", Space, "Intro", Quote>>),
     PlainLine(<<"0">>, <<"E", Space, Quote, "end", Quote>>),
     PlainLine(<<"x">>, <<"E", Space, Quote, "end", Quote>>),
     OtherLine(<<"0">>)}

\* Lines of a track section: a note, star power, frets 7 and 8, a line
\* without its sustain, a fret that is no number, a tick that is no
\* integer, a line cut before its '='.
NoteLineInputs ==
    {WordsLine(<<"0">>, <<(<<"N">>), <<"0">>, <<"9", "6">>>>),
     WordsLine(<<"0">>, <<(<<"N">>), <<"7">>, <<"0">>>>),
     WordsLine(<<"0">>, <<(<<"N">>), <<"8">>, <<"0">>>>),
     WordsLine(<<"0">>, <<(<<"S">>), <<"2">>, <<"9", "6">>>>),
     WordsLine(<<"0">>, <<(<<"N">>), <<"0">>>>),
     WordsLine(<<"0">>, <<(<<"N">>), <<"x">>, <<"0">>>>),
     WordsLine(<<"x">>, <<(<<"N">>), <<"0">>, <<"0">>>>),
     OtherLine(<<"1", "9", "2">>)}

\* A section: its header, its braces, at most one line between them.
SectionsNamed(name, line_inputs) ==
    {<<HeaderLine(name), BraceLine("{")>> \o body \o <<BraceLine("}")>> :
        body \in {<<>>} \cup {<<l>> : l \in line_inputs}}

SectionInputs ==
    SectionsNamed(<<"Song">>, SongLineInputs)
    \cup SectionsNamed(<<"SyncTrack">>, SyncLineInputs)
    \cup SectionsNamed(<<"Events">>, EventsLineInputs)
    \cup SectionsNamed(<<"Expert", "Single">>, NoteLineInputs)
    \cup SectionsNamed(<<"Easy", "DoubleGuitar">>,
                       {WordsLine(<<"0">>, <<(<<"N">>), <<"0">>, <<"0">>>>)})
    \cup SectionsNamed(<<"Foo">>,
                       {WordsLine(<<"0">>, <<(<<"N">>), <<"0">>, <<"0">>>>),
                        WordsLine(<<"x">>, <<(<<"N">>)>>),
                        QuotedLine(<<"Name">>, <<"b">>)})
    \cup SectionsNamed(<<"Expert", "Foo">>,
                       {WordsLine(<<"x">>, <<(<<"N">>)>>)})
    \cup SectionsNamed(<<>>, {QuotedLine(<<"Name">>, <<"b">>)})

RECURSIVE Concat(_)
Concat(qs) == IF qs = <<>> THEN <<>> ELSE Head(qs) \o Concat(Tail(qs))

\* Files of a few sections, and a [Song] whose known keys surround an
\* unknown one.
FileTexts ==
    {Concat(secs) : secs \in SeqsUpTo(SectionInputs, MaxSections)}
    \cup {<<HeaderLine(<<"Song">>), BraceLine("{"),
            QuotedLine(<<"Name">>, <<"a">>),
            PlainLine(<<"Player2">>, <<"bass">>),
            PlainLine(<<"Resolution">>, <<"4", "8", "0">>),
            BraceLine("}")>>}

TextInputs == FlagTexts \cup FileTexts

InitRT ==
    /\ pc = "built"
    /\ chart \in RTCharts
    /\ track = EmptyTrack /\ inserted = <<>> /\ set_log = <<>>
    /\ text = <<>> /\ parsed = None
    /\ MapIdle
    /\ WriterIdle
    /\ DlIdle

InitParse ==
    /\ pc = "text"
    /\ text \in TextInputs
    /\ track = EmptyTrack /\ inserted = <<>> /\ set_log = <<>>
    /\ chart = DefaultChart /\ parsed = None
    /\ MapIdle
    /\ WriterIdle
    /\ DlIdle

\* ChartParser.write_file(chart, filepath): the file holds the lines.
WriteFile ==
    /\ pc = "built"
    /\ text' = write_file(chart)
    /\ pc' = "written"
    /\ UNCHANGED <<mapVars, writerVars, track, inserted, chart, set_log, parsed, dlVars>>

\* ChartParser.parse_file(filepath), on a file just written or on a given
\* file.
ParseFile ==
    /\ pc \in {"written", "text"}
    /\ parsed' = parse_file(text)
    /\ pc' = IF pc = "written" THEN "reparsed" ELSE "parsed_text"
    /\ UNCHANGED <<mapVars, writerVars, track, inserted, chart, set_log, text, dlVars>>

NextRT == WriteFile \/ ParseFile

SpecRT == InitRT /\ [][NextRT]_vars

NextParse == ParseFile

-----------------------------------------------------------------------------
(* src/download_manager.py: DownloadManager.  One thread calls             *)
(* add_download, cancel_download, retry_failed and stop; each call of      *)
(* start() creates a worker thread running _worker.  A step is the code    *)
(* between two points where another thread can run: a block under          *)
(* self.lock is one step.  A task is identified with its chart.            *)

QUEUED == "queued"
DOWNLOADING == "downloading"
COMPLETED == "completed"
ERROR == "error"
CANCELLED == "cancelled"

InList(list, x) == \E k \in 1..Len(list) : list[k] = x

\* list.remove(x): the first occurrence goes.
ListRemove(list, x) ==
    LET first == CHOOSE k \in 1..Len(list) :
                     list[k] = x /\ \A j \in 1..(k - 1) : list[j] # x
    IN  [k \in 1..(Len(list) - 1) |-> IF k < first THEN list[k] ELSE list[k + 1]]

RemoveIfIn(list, x) == IF InList(list, x) THEN ListRemove(list, x) ELSE list

\* A thread that does not exist yet or has returned from _worker.
Free(w) == worker[w].at \in {"none", "exited"}

At(w, place) == [at |-> place, task |-> worker[w].task]

\* Lines 126-141 of add_download: a chart already in a queue gives its
\* task back; otherwise a DownloadTask is created and appended to
\* download_queue.  Lines 144-145 follow in StartIfNotRunning.
AddDownload(t) ==
    /\ pc = "manager" /\ caller = "ready"
    /\ status[t] = "" \/ InList(download_queue \o retry_queue, t)
    /\ IF InList(download_queue \o retry_queue, t)
       THEN UNCHANGED <<status, retry_count, download_queue, attempts, caller>>
       ELSE /\ status' = [status EXCEPT ![t] = QUEUED]
            /\ retry_count' = [retry_count EXCEPT ![t] = 0]
            /\ download_queue' = Append(download_queue, t)
            /\ attempts' = [attempts EXCEPT ![t] = 0]
            /\ caller' = "start"
    /\ UNCHANGED <<pc, mapVars, docVars, writerVars, retry_queue, completed,
                   errored, is_running, worker, worker_thread, cancelled,
                   stop_calls, retry_calls>>

\* Lines 144-145 and 195-196, with start() (lines 198-203): a worker thread
\* is created when is_running is false.
StartIfNotRunning ==
    /\ pc = "manager" /\ caller = "start"
    /\ is_running \/ \E w \in WorkerIds : Free(w)
    /\ IF is_running
       THEN UNCHANGED <<is_running, worker, worker_thread>>
       ELSE /\ is_running' = TRUE
            /\ LET w == CHOOSE v \in WorkerIds :
                            Free(v) /\ \A u \in WorkerIds : Free(u) => v <= u
               IN  /\ worker' = [worker EXCEPT ![w] = [at |-> "loop", task |-> NoTask]]
                   /\ worker_thread' = w
    /\ caller' = "ready"
    /\ UNCHANGED <<pc, mapVars, docVars, writerVars, status, retry_count,
                   download_queue, retry_queue, completed, errored,
                   cancelled, attempts, stop_calls, retry_calls>>

\* Lines 170-179, on a queued or active task.
CancelDownload(t) ==
    /\ pc = "manager" /\ caller = "ready"
    /\ status[t] \in {QUEUED, DOWNLOADING}
    /\ status' = [status EXCEPT ![t] = CANCELLED]
    /\ download_queue' = RemoveIfIn(download_queue, t)
    /\ retry_queue' = RemoveIfIn(retry_queue, t)
    /\ cancelled' = cancelled \cup {t}
    /\ UNCHANGED <<pc, mapVars, docVars, writerVars, retry_count, completed,
                   errored, is_running, worker, worker_thread, caller,
                   attempts, stop_calls, retry_calls>>

\* Lines 181-192, on a failed task.  Lines 195-196 follow in
\* StartIfNotRunning.
RetryFailed(t) ==
    /\ pc = "manager" /\ caller = "ready"
    /\ retry_calls < MaxRetryCalls
    /\ InList(errored, t)
    /\ errored' = ListRemove(errored, t)
    /\ status' = [status EXCEPT ![t] = QUEUED]
    /\ retry_count' = [retry_count EXCEPT ![t] = 0]
    /\ retry_queue' = Append(retry_queue, t)
    /\ cancelled' = cancelled \ {t}
    /\ attempts' = [attempts EXCEPT ![t] = 0]
    /\ retry_calls' = retry_calls + 1
    /\ caller' = "start"
    /\ UNCHANGED <<pc, mapVars, docVars, writerVars, download_queue,
                   completed, is_running, worker, worker_thread, stop_calls>>

\* Lines 205-207: is_running is cleared; the join follows in JoinWorker.
Stop ==
    /\ pc = "manager" /\ caller = "ready"
    /\ stop_calls < MaxStopCalls
    /\ is_running' = FALSE
    /\ stop_calls' = stop_calls + 1
    /\ caller' = "join"
    /\ UNCHANGED <<pc, mapVars, docVars, writerVars, status, retry_count,
                   download_queue, retry_queue, completed, errored, worker,
                   worker_thread, cancelled, attempts, retry_calls>>

\* Lines 208-209: worker_thread.join(timeout=5) returns when the thread has
\* ended, or after 5 seconds while the thread is inside a download.
JoinWorker ==
    /\ pc = "manager" /\ caller = "join"
    /\ IF worker_thread = NoWorker THEN TRUE
       ELSE Free(worker_thread) \/ worker[worker_thread].at = "download"
    /\ caller' = "ready"
    /\ UNCHANGED <<pc, mapVars, docVars, writerVars, status, retry_count,
                   download_queue, retry_queue, completed, errored,
                   is_running, worker, worker_thread, cancelled, attempts,
                   stop_calls, retry_calls>>

\* Line 213: the test of the while loop; the thread ends when it fails.
WorkerLoop(w) ==
    /\ pc = "manager" /\ worker[w].at = "loop"
    /\ worker' = [worker EXCEPT ![w] =
                     [at |-> IF is_running THEN "next" ELSE "exited",
                      task |-> NoTask]]
    /\ UNCHANGED <<pc, mapVars, docVars, writerVars, worker_thread, status,
                   retry_count, download_queue, retry_queue, completed,
                   errored, is_running, caller, cancelled, attempts,
                   stop_calls, retry_calls>>

\* Lines 227-244 under the lock, then lines 217-220: with no task the
\* worker sleeps and goes back to the test of the loop.
GetNextTask(w) ==
    /\ pc = "manager" /\ worker[w].at = "next"
    /\ IF retry_queue # <<>>
       THEN /\ worker' = [worker EXCEPT ![w] =
                             [at |-> "process", task |-> Head(retry_queue)]]
            /\ retry_queue' = Tail(retry_queue)
            /\ UNCHANGED <<download_queue, is_running>>
       ELSE IF download_queue # <<>>
       THEN /\ worker' = [worker EXCEPT ![w] =
                             [at |-> "process", task |-> Head(download_queue)]]
            /\ download_queue' = Tail(download_queue)
            /\ UNCHANGED <<retry_queue, is_running>>
       ELSE /\ is_running' = FALSE
            /\ worker' = [worker EXCEPT ![w] = [at |-> "loop", task |-> NoTask]]
            /\ UNCHANGED <<download_queue, retry_queue>>
    /\ UNCHANGED <<pc, mapVars, docVars, writerVars, worker_thread, status,
                   retry_count, completed, errored, caller, cancelled,
                   attempts, stop_calls, retry_calls>>

\* Lines 248-249: a cancelled task is dropped.
ProcessDownload(w) ==
    /\ pc = "manager" /\ worker[w].at = "process"
    /\ worker' = [worker EXCEPT ![w] =
                     IF status[worker[w].task] = CANCELLED
                     THEN [at |-> "loop", task |-> NoTask]
                     ELSE At(w, "begin")]
    /\ UNCHANGED <<pc, mapVars, docVars, writerVars, worker_thread, status,
                   retry_count, download_queue, retry_queue, completed,
                   errored, is_running, caller, cancelled, attempts,
                   stop_calls, retry_calls>>

\* Lines 252-254.
BeginDownload(w) ==
    /\ pc = "manager" /\ worker[w].at = "begin"
    /\ status' = [status EXCEPT ![worker[w].task] = DOWNLOADING]
    /\ attempts' = [attempts EXCEPT ![worker[w].task] = @ + 1]
    /\ worker' = [worker EXCEPT ![w] = At(w, "download")]
    /\ UNCHANGED <<pc, mapVars, docVars, writerVars, worker_thread,
                   retry_count, download_queue, retry_queue, completed,
                   errored, is_running, caller, cancelled, stop_calls,
                   retry_calls>>

\* Lines 266-274 and 286-292: api.download_chart returns True, returns
\* False or raises; then the tests of lines 274 and 286.
DownloadChart(w, outcome) ==
    /\ pc = "manager" /\ worker[w].at = "download"
    /\ worker' = [worker EXCEPT ![w] =
                     IF outcome = "success"
                     THEN IF status[worker[w].task] # CANCELLED
                          THEN At(w, "complete")
                          ELSE [at |-> "loop", task |-> NoTask]
                     ELSE At(w, "error")]
    /\ UNCHANGED <<pc, mapVars, docVars, writerVars, worker_thread, status,
                   retry_count, download_queue, retry_queue, completed,
                   errored, is_running, caller, cancelled, attempts,
                   stop_calls, retry_calls>>

\* Lines 276-279.
CompleteDownload(w) ==
    /\ pc = "manager" /\ worker[w].at = "complete"
    /\ status' = [status EXCEPT ![worker[w].task] = COMPLETED]
    /\ completed' = Append(completed, worker[w].task)
    /\ worker' = [worker EXCEPT ![w] = [at |-> "loop", task |-> NoTask]]
    /\ UNCHANGED <<pc, mapVars, docVars, writerVars, worker_thread,
                   retry_count, download_queue, retry_queue, errored,
                   is_running, caller, cancelled, attempts, stop_calls,
                   retry_calls>>

\* Lines 294-315.
HandleError(w) ==
    /\ pc = "manager" /\ worker[w].at = "error"
    /\ LET t == worker[w].task
       IN  /\ retry_count' = [retry_count EXCEPT ![t] = @ + 1]
           /\ IF retry_count[t] + 1 < max_retries
              THEN /\ status' = [status EXCEPT ![t] = QUEUED]
                   /\ retry_queue' = Append(retry_queue, t)
                   /\ UNCHANGED errored
              ELSE /\ status' = [status EXCEPT ![t] = ERROR]
                   /\ errored' = Append(errored, t)
                   /\ UNCHANGED retry_queue
    /\ worker' = [worker EXCEPT ![w] = [at |-> "loop", task |-> NoTask]]
    /\ UNCHANGED <<pc, mapVars, docVars, writerVars, worker_thread,
                   download_queue, completed, is_running, caller, cancelled,
                   attempts, stop_calls, retry_calls>>

WorkerStep(w) ==
    \/ WorkerLoop(w)
    \/ GetNextTask(w)
    \/ ProcessDownload(w)
    \/ BeginDownload(w)
    \/ \E outcome \in {"success", "failure", "exception"} : DownloadChart(w, outcome)
    \/ CompleteDownload(w)
    \/ HandleError(w)

InitManager ==
    /\ pc = "manager"
    /\ DlIdle
    /\ MapIdle
    /\ DocIdle
    /\ WriterIdle

NextManager ==
    \/ \E t \in TaskIds : AddDownload(t)
    \/ StartIfNotRunning
    \/ \E t \in TaskIds : CancelDownload(t)
    \/ \E t \in TaskIds : RetryFailed(t)
    \/ Stop
    \/ JoinWorker
    \/ \E w \in WorkerIds : WorkerStep(w)

SpecManager == InitManager /\ [][NextManager]_vars

\* The threads are scheduled: a worker that can take a step takes one, a
\* download ends, and the calling thread goes on from add_download or
\* retry_failed to the start of the worker and from stop to the join.
SpecManagerFair ==
    /\ SpecManager
    /\ WF_vars(StartIfNotRunning)
    /\ WF_vars(JoinWorker)
    /\ \A w \in WorkerIds : WF_vars(WorkerStep(w))

SpecParse == InitParse /\ [][NextParse]_vars

-----------------------------------------------------------------------------
(* C1: every lane returned by map_pitches_to_lanes is an integer in 0..4,  *)
(* for any notes, phrase_silence_beats > 0, max_lane_jump in 0..4 and      *)
(* smoothing_passes >= 0.                                                  *)
C1_LanesInRange ==
    pc \in {"mapped", "checked_mapped"} =>
        \A i \in 1..Len(lanes) : lanes[i] \in 0..4

\* A mapped input on which the direction step pushes against lane 4: the
\* pitch rises twice at the top of the phrase.
C1_Witness ==
    /\ pc = "mapped"
    /\ Len(lanes) = MaxNotes
    /\ lanes[Len(lanes)] = 4
    /\ lanes[Len(lanes) - 1] = 4
    /\ notes[Len(notes)].pitch > notes[Len(notes) - 1].pitch

-----------------------------------------------------------------------------
(* Claims about detect_qa_issues, on lanes supplied by the caller.         *)

\* The notes are one phrase: no gap reaches the silence threshold.
SinglePhrase ==
    \A i \in 2..Len(notes) :
        (notes[i].start_tick - notes[i - 1].end_tick) * phrase_silence_beats.den
            < phrase_silence_beats.num * ticks_per_beat

DefaultTunables ==
    /\ phrase_silence_beats = [num |-> 1, den |-> 1]
    /\ max_lane_jump = 2
    /\ smoothing_passes = 1

Transitions == 2..Len(notes)

\* C17: for a strictly ascending pitch run of N notes in a single phrase,
\* map_pitches_to_lanes with the default tunables gives lane[i] >=
\* lane[i-1] for at least N-2 transitions; for a strictly descending run,
\* lane[i] <= lane[i-1] for at least N-2 transitions.
C17_RunsKeepDirection ==
    (pc = "mapped" /\ SinglePhrase /\ DefaultTunables /\ notes # <<>>) =>
        /\ (\A i \in Transitions : notes[i].pitch > notes[i - 1].pitch)
              => Cardinality({i \in Transitions : lanes[i] >= lanes[i - 1]})
                     >= Len(notes) - 2
        /\ (\A i \in Transitions : notes[i].pitch < notes[i - 1].pitch)
              => Cardinality({i \in Transitions : lanes[i] <= lanes[i - 1]})
                     >= Len(notes) - 2

\* The ascending run over all the pitches, mapped from lane 0 up to lane 4.
C17_Witness ==
    /\ pc = "mapped"
    /\ Len(notes) = RunSpan + 1
    /\ notes[1].pitch = 60
    /\ notes[Len(notes)].pitch = 60 + RunSpan
    /\ lanes[1] = 0
    /\ lanes[Len(lanes)] = 4

\* C18: map_pitches_to_lanes returns one lane per note (output length =
\* input length), and the empty list for the empty note sequence.
C18_OneLanePerNote ==
    pc \in {"mapped", "checked_mapped"} =>
        /\ Len(lanes) = Len(notes)
        /\ DOMAIN lanes = DOMAIN notes
        /\ notes = <<>> => lanes = <<>>

\* Two phrases of three notes, three lanes.
C18_Witness ==
    /\ pc = "mapped"
    /\ Len(notes) = 3
    /\ ~SinglePhrase
    /\ Len(lanes) = 3

\* The notes of the phrase of note i all have one pitch.
Has(list, x) == \E k \in 1..Len(list) : list[k] = x

\* C26: for max_lane_jump >= 1 and smoothing_passes >= 1, the lanes
\* returned by map_pitches_to_lanes have |lane[i] - lane[i-1]| <=
\* max_lane_jump for every consecutive pair, after the direction step and
\* across phrase boundaries.
C26_FinalLanesWithinJump ==
    (/\ pc \in {"mapped", "checked_mapped"}
     /\ max_lane_jump >= 1
     /\ smoothing_passes >= 1) =>
        \A i \in 2..Len(lanes) : Abs(lanes[i] - lanes[i - 1]) <= max_lane_jump

\* C30: in the lanes returned by map_pitches_to_lanes a rising pitch is
\* never followed by a lower lane and a falling pitch never by a higher
\* lane, so detect_qa_issues on the notes and these lanes reports no
\* TOO_LOW and no TOO_HIGH, for every tunable setting.
C30_NoDirectionIssueOnOwnOutput ==
    /\ pc \in {"mapped", "checked_mapped"} =>
           \A i \in 2..Len(lanes) :
               /\ notes[i].pitch > notes[i - 1].pitch => lanes[i] >= lanes[i - 1]
               /\ notes[i].pitch < notes[i - 1].pitch => lanes[i] <= lanes[i - 1]
    /\ pc = "checked_mapped" =>
           \A i \in 1..Len(issues) :
               ~Has(issues[i], TOO_LOW) /\ ~Has(issues[i], TOO_HIGH)

\* Two rising notes in a phrase, then a higher note after a silence: its
\* phrase puts it on lane 2 and the direction step lifts it to lane 4.
C30_Witness ==
    /\ pc = "checked_mapped"
    /\ Len(notes) = 3
    /\ notes[1].pitch = 60 /\ notes[2].pitch = 61 /\ notes[3].pitch = 63
    /\ notes[2].start_tick = notes[1].end_tick
    /\ notes[3].start_tick = notes[2].end_tick + 2
    /\ max_lane_jump = 4
    /\ lanes = <<0, 4, 4>>
    /\ issues = <<(<<>>), <<>>, <<>>>>

RECURSIVE Flatten(_)
Flatten(lists) ==
    IF lists = <<>> THEN <<>> ELSE Head(lists) \o Flatten(Tail(lists))

\* The 1-based positions that open a phrase.
PhraseStarts == {segmented[k][1] : k \in 1..Len(segmented)}

\* C24: segment_into_phrases partitions the indices into non-empty runs of
\* consecutive indices, in order, each index in exactly one phrase, and a
\* new phrase starts at index i exactly when notes[i].start_tick -
\* notes[i-1].end_tick >= phrase_silence_beats * ticks_per_beat, also when
\* that product is not an integer.
C24_PhrasesPartition ==
    pc = "phrase_out" =>
        /\ \A k \in 1..Len(segmented) : segmented[k] # <<>>
        /\ Flatten(segmented) = [i \in 1..Len(notes) |-> i]
        /\ \A i \in 2..Len(notes) :
               i \in PhraseStarts
                   <=> (notes[i].start_tick - notes[i - 1].end_tick)
                           * phrase_silence_beats.den
                       >= phrase_silence_beats.num * ticks_per_beat

\* C25: for lanes in 0..4, max_jump in 0..4 and passes >= 1, smooth_lanes
\* leaves no consecutive pair further apart than max_jump, keeps the first
\* lane, keeps every value in 0..4, and returns the input when the input
\* already satisfies the jump limit.
C25_SmoothWithinJump ==
    (pc = "smooth_out" /\ smoothing_passes >= 1) =>
        /\ Len(smooth_out) = Len(lanes)
        /\ \A i \in 2..Len(smooth_out) :
               Abs(smooth_out[i] - smooth_out[i - 1]) <= max_lane_jump
        /\ lanes # <<>> => smooth_out[1] = lanes[1]
        /\ \A i \in 1..Len(smooth_out) : smooth_out[i] \in 0..4
        /\ (\A i \in 2..Len(lanes) : Abs(lanes[i] - lanes[i - 1]) <= max_lane_jump)
               => smooth_out = lanes

\* Lanes 0, 4, 0, 4 with max_jump 1 in one pass: 0, 1, 0, 1.
C25_Witness ==
    /\ pc = "smooth_out"
    /\ smoothing_passes = 1
    /\ max_lane_jump = 1
    /\ lanes = <<0, 4, 0, 4>>
    /\ smooth_out = <<0, 1, 0, 1>>

FlatPhrase(i) ==
    LET phrase == PhraseOf(segment_into_phrases(notes, ticks_per_beat,
                                                phrase_silence_beats), i)
    IN  \A j \in 1..Len(phrase) : notes[phrase[j]].pitch = notes[i].pitch

\* C19: every note of a phrase whose notes all have one pitch (a
\* single-note phrase included) has lane 2 in the result of
\* map_pitches_to_lanes, whatever phrases precede or follow it.
C19_FlatPhraseCentered ==
    pc = "mapped" =>
        \A i \in 1..Len(notes) : FlatPhrase(i) => lanes[i] = 2


\* The caller's lists pair up one to one and the detection has run.
QAChecked == pc = "checked_given" /\ Len(lanes) = Len(notes)

\* Notes i < k of equal pitch on different lanes, with a note of another
\* pitch between them.
SeparatedPair(i, k) ==
    /\ i < k
    /\ notes[i].pitch = notes[k].pitch
    /\ lanes[i] # lanes[k]
    /\ \E j \in (i + 1)..(k - 1) : notes[j].pitch # notes[i].pitch

C9_FlaggedIffEarlierOtherLane ==
    QAChecked =>
        \A i \in 1..Len(notes) :
            Has(issues[i], DIFFERENT_FRET)
                <=> \E j \in 1..(i - 1) :
                        notes[j].pitch = notes[i].pitch /\ lanes[j] # lanes[i]

\* C10: note i > 0 carries TOO_LOW exactly when the pitch rises by more than
\* 2 while the lane falls by more than 1, TOO_HIGH exactly when the pitch
\* falls by more than 2 while the lane rises by more than 1; the first note
\* carries neither and no note carries both.
C10_DirectionIssues ==
    QAChecked =>
        \A i \in 1..Len(notes) :
            /\ Has(issues[i], TOO_LOW)
                   <=> (i > 1 /\ notes[i].pitch - notes[i - 1].pitch > 2
                              /\ lanes[i] - lanes[i - 1] < -1)
            /\ Has(issues[i], TOO_HIGH)
                   <=> (i > 1 /\ notes[i].pitch - notes[i - 1].pitch < -2
                              /\ lanes[i] - lanes[i - 1] > 1)
            /\ ~(Has(issues[i], TOO_LOW) /\ Has(issues[i], TOO_HIGH))

\* A rise flagged TOO_LOW followed by a fall flagged TOO_HIGH.
C10_Witness ==
    /\ QAChecked
    /\ Len(notes) = 3
    /\ Has(issues[2], TOO_LOW)
    /\ Has(issues[3], TOO_HIGH)
    /\ issues[1] = <<>>

Combined == pc \in {"combined_qa", "combined_plain"}

\* C11: create_mapped_notes called with notes and lanes of different
\* lengths raises ValueError and produces no MappedNote, with include_qa
\* true and with include_qa false; lists of equal length give one
\* MappedNote per note.
C11_LengthMismatchRaises ==
    Combined =>
        /\ Len(notes) # Len(lanes)
               => (mapped.raised = "ValueError" /\ mapped.value = <<>>)
        /\ Len(notes) = Len(lanes)
               => (mapped.raised = "" /\ Len(mapped.value) = Len(notes))

\* C23: detect_qa_issues on notes and lanes of different lengths fails
\* with an error: it never returns issue lists (computed from the truncated
\* pairing of notes and lanes).
C23_QAMismatchFails ==
    pc = "checked_given" => Len(notes) = Len(lanes)

\* More notes than lanes, without QA detection.
C11_Witness ==
    /\ pc = "combined_plain"
    /\ Len(notes) = 3
    /\ Len(lanes) = 2
    /\ mapped.raised = "ValueError"

-----------------------------------------------------------------------------
(* Claims about the chart writer.                                          *)

\* C15: the tick converter is monotonic: for ticks a <= b and positive
\* resolutions, the converted a is at most the converted b, so a note that
\* ends no earlier than it starts has no negative chart duration.
C15_ConverterMonotonic ==
    pc = "converted" =>
        (midi_ticks[1] <= midi_ticks[2] => chart_ticks[1] <= chart_ticks[2])

\* Ticks 479 < 480 at 480 per quarter, converted to 191 < 192.
C15_Witness ==
    /\ pc = "converted"
    /\ midi_ppq = 480 /\ chart_resolution = 192
    /\ midi_ticks = <<479, 480>>
    /\ chart_ticks[1] < chart_ticks[2]

SustainOnLine(i) == PyInt(Split(Strip(section[2 + i].rhs))[3])

\* C20: format_notes_section writes, for each note, a sustain equal to its
\* duration in chart ticks (converted end minus converted start) when the
\* duration is at least min_sustain_beats * chart_resolution, and 0
\* otherwise.
C20_SustainAtLeastMinimum ==
    pc = "section_out" =>
        \A i \in 1..Len(notes) :
            LET duration ==
                    midi_ticks_to_chart_ticks(notes[i].end_tick, midi_ppq,
                                              chart_resolution)
                    - midi_ticks_to_chart_ticks(notes[i].start_tick, midi_ppq,
                                                chart_resolution)
            IN  SustainOnLine(i) =
                    IF duration * min_sustain_beats.den
                           >= min_sustain_beats.num * chart_resolution
                    THEN duration ELSE 0

\* The words after the '=' of line i of the [SyncTrack] section.
SyncWords(i) == Split(Strip(sync_track[i].rhs))

\* The lines of the section at tick 0 whose event type is t.
SyncLinesAtZero(t) ==
    {i \in 1..Len(sync_track) :
        /\ sync_track[i].kind = "assign"
        /\ PyInt(sync_track[i].lhs) = 0
        /\ SyncWords(i)[1] = <<t>>}

PowersOfTwo == {1, 2, 4, 8, 16, 32}

\* C21: for a BPM given in thousandths and a power-of-two denominator,
\* format_sync_track emits at tick 0 exactly one line `TS <numerator>
\* <log2(denominator)>` and exactly one line `B <round(bpm * 1000)>`.
C21_SyncTrackLines ==
    (/\ pc = "sync_out"
     /\ bpm % (FloatScale \div 1000) = 0
     /\ time_sig_denominator \in PowersOfTwo) =>
        /\ \E i \in 1..Len(sync_track) :
              /\ SyncLinesAtZero("TS") = {i}
              /\ Len(SyncWords(i)) = 3
              /\ PyInt(SyncWords(i)[2]) = time_sig_numerator
              /\ 2 ^ PyInt(SyncWords(i)[3]) = time_sig_denominator
        /\ \E i \in 1..Len(sync_track) :
              /\ SyncLinesAtZero("B") = {i}
              /\ Len(SyncWords(i)) = 2
              /\ PyInt(SyncWords(i)[2]) = bpm \div (FloatScale \div 1000)

-----------------------------------------------------------------------------
(* Claims about the document model.                                        *)

\* Projection of a note on the fields the file format carries.
NoteFields(n) ==
    [tick |-> n.tick, fret |-> n.fret, sustain |-> n.sustain,
     is_forced |-> n.is_forced, is_tap |-> n.is_tap]

\* C2: after write_file and parse_file, every populated (instrument,
\* difficulty) track of the Chart has the same notes in the same order,
\* each with identical tick, fret, sustain, is_forced and is_tap, chords
\* with only some notes forced or tap included.
C2_NotesRoundTrip ==
    pc = "reparsed" =>
        /\ parsed.ok
        /\ \A i \in Instruments, d \in Difficulties :
              LET t == get_track(chart, i, d)
                  u == get_track(parsed.chart, i, d)
              IN  t # None =>
                     /\ u # None
                     /\ Len(u.notes) = Len(t.notes)
                     /\ \A k \in 1..Len(t.notes) :
                           NoteFields(u.notes[k]) = NoteFields(t.notes[k])

IsFlagLine(line, flag) ==
    /\ line.kind = "assign"
    /\ LET event_data == Split(Strip(line.rhs))
       IN  Len(event_data) >= 2 /\ event_data[1] = <<"N">>
           /\ event_data[2] = IntToText(flag)

Reverse(q) == [i \in 1..Len(q) |-> q[Len(q) + 1 - i]]

NoteFlags(r) ==
    LET t == get_track(r.chart, "GUITAR", "EXPERT")
    IN  {[tick |-> t.notes[k].tick, fret |-> t.notes[k].fret,
          is_forced |-> t.notes[k].is_forced, is_tap |-> t.notes[k].is_tap] :
            k \in 1..Len(t.notes)}

\* C3: in a parsed track section a forced flag line (N 5) or tap flag line
\* (N 6) at tick t marks every note at tick t, whether the flag line comes
\* before or after the note line, and the section with its lines in the
\* opposite order parses to notes with the same flags.
C3_FlagsIndependentOfLineOrder ==
    (pc = "parsed_text" /\ text \in FlagTexts) =>
        /\ parsed.ok
        /\ LET t == get_track(parsed.chart, "GUITAR", "EXPERT")
           IN  \A k \in 1..Len(text), n \in 1..Len(t.notes) :
                  /\ (IsFlagLine(text[k], FORCED)
                      /\ PyInt(Strip(text[k].lhs)) = t.notes[n].tick)
                         => t.notes[n].is_forced
                  /\ (IsFlagLine(text[k], TAP)
                      /\ PyInt(Strip(text[k].lhs)) = t.notes[n].tick)
                         => t.notes[n].is_tap
        /\ NoteFlags(parse_file(SectionText(Reverse(SubSeq(text, 3, Len(text) - 1)))))
              = NoteFlags(parsed)

RECURSIVE Headers(_)
Headers(lines) ==
    IF lines = <<>> THEN <<>>
    ELSE (IF Head(lines).kind = "header" THEN <<Head(lines).name>> ELSE <<>>)
         \o Headers(Tail(lines))

DifficultyRank(name) ==
    CASE name = "Easy" -> 1 [] name = "Medium" -> 2
      [] name = "Hard" -> 3 [] name = "Expert" -> 4

InstrumentRank(name) ==
    CASE name = "Single" -> 1 [] name = "DoubleBass" -> 2
      [] name = "DoubleRhythm" -> 3 [] name = "Keyboard" -> 4
      [] name = "Drums" -> 5 [] name = "GHLGuitar" -> 6 [] name = "GHLBass" -> 7

Populated(c) ==
    {<<i, d>> \in Instruments \X Difficulties : get_track(c, i, d) # None}

\* C14: the written text has its sections in the order [Song],
\* [SyncTrack], [Events], then one section per populated track,
\* difficulty-major and instrument-minor: every section of a lower
\* difficulty comes before every section of a higher one.
C14_SectionOrder ==
    pc = "written" =>
        LET hs == Headers(text)
        IN  /\ Len(hs) = 3 + Cardinality(Populated(chart))
            /\ hs[1] = <<"Song">> /\ hs[2] = <<"SyncTrack">> /\ hs[3] = <<"Events">>
            /\ \A a, b \in 4..Len(hs) :
                   a < b =>
                      \/ DifficultyRank(hs[a][1]) < DifficultyRank(hs[b][1])
                      \/ /\ hs[a][1] = hs[b][1]
                         /\ InstrumentRank(hs[a][2]) < InstrumentRank(hs[b][2])

\* C4: after write_file and parse_file the Chart has the same list of
\* BPMChange (tick, bpm) and the same list of TimeSignature (tick,
\* numerator, denominator) as the original.
C4_TempoRoundTrip ==
    pc = "reparsed" =>
        /\ parsed.ok
        /\ parsed.chart.bpm_changes = chart.bpm_changes
        /\ parsed.chart.time_signatures = chart.time_signatures

\* The header line that opens the section line k lies in, 0 before the
\* first section.
HeaderBefore(lines, k) ==
    LET hs == {j \in 1..(k - 1) : lines[j].kind = "header"}
    IN  IF hs = {} THEN 0 ELSE SetMax(hs)

\* Section names the parser handles.
Recognized(name) ==
    \/ name \in {<<"Song">>, <<"SyncTrack">>, <<"Events">>}
    \/ /\ Len(name) = 2
       /\ name[1] \in {"Easy", "Medium", "Hard", "Expert"}
       /\ name[2] \in {"Single", "DoubleBass", "DoubleRhythm", "DoubleGuitar",
                        "Keyboard", "Drums", "GHLGuitar", "GHLBass"}

NumberKeys == {<<"Resolution">>, <<"Difficulty">>}
FloatKeys == {<<"Offset">>, <<"PreviewStart">>, <<"PreviewEnd">>}
SongKeys ==
    {<<"Name">>, <<"Artist">>, <<"Album">>, <<"Genre">>, <<"Year">>, <<"Charter">>}
    \cup NumberKeys \cup FloatKeys

BadTick(line) == line.kind = "assign" /\ ~IntOk(Strip(line.lhs))

\* An event of one of the types that lacks one of its `count` arguments or
\* has one that is no integer.
BadArguments(line, types, count) ==
    /\ line.kind = "assign"
    /\ LET event_data == Split(Strip(line.rhs))
       IN  \/ event_data = <<>>
           \/ /\ event_data[1] \in types
              /\ \/ Len(event_data) < 1 + count
                 \/ \E a \in 2..(1 + count) : ~IntOk(event_data[a])

\* A structurally malformed line of a recognized section: cut before its
\* '=', a tick that is no integer, a value that is no number, a missing
\* argument.
Malformed(name, line) ==
    \/ line.kind = "other"
    \/ /\ name = <<"Song">>
       /\ line.kind = "assign"
       /\ LET value == StripChars(Strip(line.rhs), {Quote})
          IN  \/ Strip(line.lhs) \in NumberKeys /\ ~IntOk(value)
              \/ Strip(line.lhs) \in FloatKeys /\ ~FloatOk(value)
    \/ /\ name = <<"SyncTrack">>
       /\ BadTick(line) \/ BadArguments(line, {<<"B">>, <<"TS">>}, 1)
    \/ /\ name = <<"Events">>
       /\ BadTick(line)
    \/ /\ name \notin {<<"Song">>, <<"SyncTrack">>, <<"Events">>}
       /\ BadTick(line) \/ BadArguments(line, {<<"N">>, <<"S">>}, 2)

\* C12: when a line of [Song], [SyncTrack], [Events] or a recognized track
\* section is structurally malformed, parse_file fails and returns no
\* Chart.
C12_MalformedLineFails ==
    pc = "parsed_text" =>
        \A k \in 1..Len(text) :
            LET h == HeaderBefore(text, k)
            IN  (/\ h > 0
                 /\ text[k].kind \in {"assign", "other"}
                 /\ Recognized(text[h].name)
                 /\ Malformed(text[h].name, text[k]))
                => ~parsed.ok

\* Line k stays when unknown sections and unknown [Song] keys are removed.
Known(lines, k) ==
    LET h == IF lines[k].kind = "header" THEN k ELSE HeaderBefore(lines, k)
    IN  h > 0 =>
           /\ Recognized(lines[h].name)
           /\ ~(/\ lines[h].name = <<"Song">>
                /\ lines[k].kind = "assign"
                /\ Strip(lines[k].lhs) \notin SongKeys)

RECURSIVE KnownLines(_, _)
KnownLines(lines, k) ==
    IF k > Len(lines) THEN <<>>
    ELSE (IF Known(lines, k) THEN <<lines[k]>> ELSE <<>>) \o KnownLines(lines, k + 1)

\* C13: sections with unrecognized names, whatever their content, and
\* unrecognized keys in [Song] are ignored without error: parse_file gives
\* the outcome it gives for the text without those sections and key lines.
C13_UnknownIgnored ==
    pc = "parsed_text" => parsed = parse_file(KnownLines(text, 1))

\* An unknown section holding a line that would fail in a track section,
\* then a guitar track with a note.
C13_Witness ==
    /\ pc = "parsed_text"
    /\ Len(text) = 8
    /\ text[1] = HeaderLine(<<"Expert", "Foo">>)
    /\ BadTick(text[3])
    /\ Len(KnownLines(text, 1)) = 4
    /\ parsed.ok
    /\ get_track(parsed.chart, "GUITAR", "EXPERT") # None
    /\ Len(get_track(parsed.chart, "GUITAR", "EXPERT").notes) = 1

\* C22: every Note of a Track produced by the parser has its fret in 0..4
\* or is the open note (fret 7 with is_open set); N lines with fret 5 or 6
\* and N lines with a fret outside 0..7 give no note and no error.
C22_ParsedFretsPlayable ==
    (pc = "parsed_text" /\ parsed.ok) =>
        \A <<i, d>> \in Populated(parsed.chart) :
            LET t == get_track(parsed.chart, i, d)
            IN  \A k \in 1..Len(t.notes) :
                    \/ t.notes[k].fret \in 0..4
                    \/ t.notes[k].fret = OPEN /\ t.notes[k].is_open

NoQuote(t) == \A k \in 1..Len(t) : t[k] # Quote

\* C5: for a Chart whose string fields hold no double quote, write_file
\* and parse_file give identical name, artist, album, genre, year, charter,
\* offset, resolution, preview_start and preview_end, empty and zero
\* fields included.
C5_MetadataRoundTrip ==
    (/\ pc = "reparsed"
     /\ \A f \in {"name", "artist", "album", "genre", "year", "charter"} :
           NoQuote(chart[f]))
    => /\ parsed.ok
       /\ \A f \in {"name", "artist", "album", "genre", "year", "charter",
                    "offset", "resolution", "preview_start", "preview_end"} :
             parsed.chart[f] = chart[f]


Count(list, x) == Cardinality({k \in 1..Len(list) : list[k] = x})

\* C6: after any sequence of Track.add_note calls from an empty Track,
\* Track.notes is sorted ascending by (tick, fret) and holds exactly the
\* notes that were inserted, each as often as it was inserted.
C6_SortedAndComplete ==
    pc = "track" =>
        /\ \A i \in 1..(Len(track.notes) - 1) :
               \/ track.notes[i].tick < track.notes[i + 1].tick
               \/ /\ track.notes[i].tick = track.notes[i + 1].tick
                  /\ track.notes[i].fret <= track.notes[i + 1].fret
        /\ Len(track.notes) = Len(inserted)
        /\ \A k \in 1..Len(inserted) :
               Count(track.notes, inserted[k]) = Count(inserted, inserted[k])

\* Notes inserted in descending order, the last one twice.
C6_Witness ==
    /\ pc = "track"
    /\ Len(inserted) = 3
    /\ inserted[1].tick > inserted[2].tick
    /\ inserted[2] = inserted[3]
    /\ track.notes[1] = inserted[2]

\* C7 as stated: for every Instrument and Difficulty, after
\* set_track(i, d, t) the call get_track(i, d) returns t (so a second
\* set_track on the pair replaces the first).
C7_GetReturnsLastSet ==
    (pc = "chart" /\ set_log # <<>>) =>
        LET last == set_log[Len(set_log)]
        IN  get_track(chart, last.instrument, last.difficulty) = last.track

-----------------------------------------------------------------------------
(* Claims about the download manager.                                      *)

Running == {w \in WorkerIds : ~Free(w)}

\* The workers inside _process_download past its first test.
Downloading ==
    {w \in WorkerIds : worker[w].at \in {"begin", "download", "complete", "error"}}

\* C27: under every interleaving of add_download, retry_failed, stop and
\* the worker thread, at most one worker is running and at most one task is
\* inside _process_download (status DOWNLOADING) at any time.
C27_OneDownloadAtATime ==
    pc = "manager" =>
        /\ Cardinality(Running) <= 1
        /\ Cardinality(Downloading) <= 1
        /\ Cardinality({t \in TaskIds : status[t] = DOWNLOADING}) <= 1

\* C28: once cancel_download has been called on a queued or active task,
\* its status stays CANCELLED and it is in none of retry_queue, completed
\* and errored, whether the running download succeeds, fails or raises.
C28_CancelledStays ==
    pc = "manager" =>
        \A t \in cancelled :
            /\ status[t] = CANCELLED
            /\ ~InList(retry_queue, t)
            /\ ~InList(completed, t)
            /\ ~InList(errored, t)

Occurrences(list, x) == Cardinality({k \in 1..Len(list) : list[k] = x})

\* A task is attempted at most max_retries times after being queued, is
\* in errored at most once and exactly when its status is ERROR, after
\* max_retries attempts, and a task queued again after a failure is on the
\* retry queue or with the worker that took it from there.
RetryBounded ==
    \A t \in TaskIds :
        /\ attempts[t] <= max_retries
        /\ Occurrences(errored, t) <= 1
        /\ InList(errored, t) <=> status[t] = ERROR
        /\ InList(errored, t) => attempts[t] = max_retries
        /\ (status[t] = QUEUED /\ retry_count[t] > 0) =>
               \/ InList(retry_queue, t)
               \/ \E w \in WorkerIds :
                      worker[w].task = t /\ worker[w].at \in {"process", "begin"}

\* A worker that takes a task while the retry queue is not empty takes the
\* head of the retry queue.
RetryQueueFirst ==
    \A w \in WorkerIds :
        (worker[w].at = "next" /\ worker'[w].at = "process" /\ retry_queue # <<>>)
            => worker'[w].task = Head(retry_queue)

\* C29: retry is bounded and ends in a terminal state: a task is attempted
\* at most max_retries times after being queued, is re-queued on the retry
\* queue (served before the main queue) after each earlier failure, then
\* is in errored exactly once with status ERROR; and every queued task that
\* is not cancelled eventually reaches COMPLETED or ERROR, unless stop() is
\* called.
C29_RetryEndsInTerminalState ==
    /\ [](pc = "manager" => RetryBounded)
    /\ [][RetryQueueFirst]_vars
    /\ \A t \in TaskIds :
           (pc = "manager" /\ status[t] = QUEUED)
               ~> (status[t] \in {COMPLETED, ERROR} \/ t \in cancelled
                   \/ stop_calls > 0)

====
